---- MODULE Spec2Model ----
(***************************************************************************)
(* Model of the MDS collector of ceph_exporter (src/ceph/mds.go).          *)
(*                                                                         *)
(* Strings are sequences of one-character strings, so that splitting,      *)
(* pattern matching and key encoding are computed character by character.  *)
(* The collector's channel m.ch is the sequence ch; every Collect call and *)
(* every backgroundCollect goroutine is a record with its own position.    *)
(* The one-shot collectors (RGW, pool usage) and the exporter that merges  *)
(* the collectors' samples into one scrape response are the record exp.    *)
(* parse is one call of extractOpFromDescription: its argument and result. *)
(* enc is the encoding of two label tuples with Hash and the decoding of   *)
(* the first with UnHash.                                                  *)
(***************************************************************************)
EXTENDS Integers, Sequences, FiniteSets, TLC

VARIABLES background, ch, closed, calls, bg, passes, scenario, exp, parse, enc

vars == <<background, ch, closed, calls, bg, passes, scenario, exp, parse, enc>>

(***************************************************************************)
(* Program constants                                                       *)
(***************************************************************************)

\* make(chan prometheus.Metric, 100)
ChanCap == 100

(***************************************************************************)
(* Bounds of the model                                                     *)
(***************************************************************************)

\* Collect calls per behaviour
MaxCalls == 2

\* Collect calls that may be in progress at the same time
MaxConcurrent == 2

\* collection passes run by backgroundCollect goroutines per behaviour
MaxPasses == 1

\* operation records in one dump_blocked_ops payload
MaxOps == 3

\* forwarded samples of one Collect call that are remembered while the
\* background task loops forever
MaxOut == 3

(***************************************************************************)
(* Characters and strings                                                  *)
(***************************************************************************)

Lower == {"a","b","c","d","e","f","g","h","i","j","k","l","m",
          "n","o","p","q","r","s","t","u","v","w","x","y","z"}

Upper == {"A","B","C","D","E","F","G","H","I","J","K","L","M",
          "N","O","P","Q","R","S","T","U","V","W","X","Y","Z"}

Digit == {"0","1","2","3","4","5","6","7","8","9"}

\* [0-9a-fA-F]
HexCh == Digit \cup {"a","b","c","d","e","f","A","B","C","D","E","F"}

\* \w
WordCh == Lower \cup Upper \cup Digit \cup {"_"}

\* \s
SpaceCh == {" ", "\t", "\n", "\f", "\r"}

\* the characters excluded by [^a-zA-Z\d:]
TailExcl == Lower \cup Upper \cup Digit \cup {":"}

Max(S) == CHOOSE x \in S : \A y \in S : y <= x

Min(S) == CHOOSE x \in S : \A y \in S : x <= y

DigitStr == <<"0","1","2","3","4","5","6","7","8","9">>

\* strconv.Itoa
RECURSIVE ItoaNat(_)
ItoaNat(n) == IF n < 10 THEN <<DigitStr[n + 1]>>
              ELSE ItoaNat(n \div 10) \o <<DigitStr[(n % 10) + 1]>>

Itoa(n) == IF n < 0 THEN <<"-">> \o ItoaNat(0 - n) ELSE ItoaNat(n)

\* strings.Split(s, sep) for a one-character separator
RECURSIVE Split(_, _)
Split(s, sep) ==
    IF \A i \in 1..Len(s) : s[i] # sep
    THEN <<s>>
    ELSE LET i == Min({k \in 1..Len(s) : s[k] = sep})
         IN <<SubSeq(s, 1, i - 1)>> \o Split(SubSeq(s, i + 1, Len(s)), sep)

\* the set of orders in which a Go map (or sync.Map.Range) can be iterated
RECURSIVE Perms(_)
Perms(S) == IF S = {} THEN {<<>>}
            ELSE UNION {{<<x>> \o p : p \in Perms(S \ {x})} : x \in S}

(***************************************************************************)
(* descRegex and extractOpFromDescription                                  *)
(***************************************************************************)

\* the literal prefix  client_request\(client\.
DescLit == <<"c","l","i","e","n","t","_","r","e","q","u","e","s","t","(",
             "c","l","i","e","n","t",".">>

HasLit(d, s) == /\ s + Len(DescLit) - 1 <= Len(d)
                /\ \A i \in 1..Len(DescLit) : d[s + i - 1] = DescLit[i]

\* [^a-zA-Z\d:] at position e (the trailing .* always matches)
TailOK(d, e) == e <= Len(d) /\ d[e] \notin TailExcl

\* (?P<inode>0x[0-9a-fA-F]+|[0-9]+) at p, followed by the tail: the end of
\* the inode (exclusive), 0 when there is no match.  The first alternative
\* is preferred, and within an alternative the longest repetition.
MatchInode(d, p) ==
    LET n == Len(d)
        hexEnds == IF p + 1 <= n /\ d[p] = "0" /\ d[p + 1] = "x"
                   THEN {e \in (p + 3)..(n + 1) :
                            /\ \A i \in (p + 2)..(e - 1) : d[i] \in HexCh
                            /\ TailOK(d, e)}
                   ELSE {}
        decEnds == {e \in (p + 1)..(n + 1) :
                       /\ \A i \in p..(e - 1) : d[i] \in Digit
                       /\ TailOK(d, e)}
    IN IF hexEnds # {} THEN Max(hexEnds)
       ELSE IF decEnds # {} THEN Max(decEnds)
       ELSE 0

\* .*# starting at q (greedy): the position of the '#' used, 0 when no match
MatchHash(d, q) ==
    LET hs == {h \in q..Len(d) :
                  /\ d[h] = "#"
                  /\ \A i \in q..(h - 1) : d[i] # "\n"
                  /\ MatchInode(d, h + 1) # 0}
    IN IF hs = {} THEN 0 ELSE Max(hs)

\* (?P<fsoptype>\w+)\s starting at c (greedy): the position of the \s
MatchFsOp(d, c) ==
    LET es == {e \in (c + 1)..Len(d) :
                  /\ \A i \in c..(e - 1) : d[i] \in WordCh
                  /\ d[e] \in SpaceCh
                  /\ MatchHash(d, e + 1) # 0}
    IN IF es = {} THEN 0 ELSE Max(es)

\* (?P<cid>[0-9].+?)\s starting at b (lazy): the position of the \s
MatchCid(d, b) ==
    LET es == {e \in (b + 2)..Len(d) :
                  /\ d[b] \in Digit
                  /\ \A i \in (b + 1)..(e - 1) : d[i] # "\n"
                  /\ d[e] \in SpaceCh
                  /\ MatchFsOp(d, e + 1) # 0}
    IN IF es = {} THEN 0 ELSE Min(es)

\* (?P<clientid>[0-9].+?): starting at a (lazy): the position of the ':'
MatchClient(d, a) ==
    LET es == {e \in (a + 2)..Len(d) :
                  /\ d[a] \in Digit
                  /\ \A i \in (a + 1)..(e - 1) : d[i] # "\n"
                  /\ d[e] = ":"
                  /\ MatchCid(d, e + 1) # 0}
    IN IF es = {} THEN 0 ELSE Min(es)

\* the submatches of the match that starts at s, given the positions found
\* for the ':' (e1), the two \s (e2, e3), the '#' (h) and the inode's end (e4)
Submatches(d, s, e1, e2, e3, h, e4) ==
    <<SubSeq(d, s, IF \E i \in (e4 + 1)..Len(d) : d[i] = "\n"
                   THEN Min({i \in (e4 + 1)..Len(d) : d[i] = "\n"}) - 1
                   ELSE Len(d)),
      SubSeq(d, s + Len(DescLit), e1 - 1),
      SubSeq(d, e1 + 1, e2 - 1),
      SubSeq(d, e2 + 1, e3 - 1),
      SubSeq(d, h + 1, e4 - 1)>>

MatchFrom5(d, s, e1, e2, e3, h) == Submatches(d, s, e1, e2, e3, h, MatchInode(d, h + 1))

MatchFrom4(d, s, e1, e2, e3) == MatchFrom5(d, s, e1, e2, e3, MatchHash(d, e3 + 1))

MatchFrom3(d, s, e1, e2) == MatchFrom4(d, s, e1, e2, MatchFsOp(d, e2 + 1))

MatchFrom2(d, s, e1) == MatchFrom3(d, s, e1, MatchCid(d, e1 + 1))

MatchFrom1(d, s) == MatchFrom2(d, s, MatchClient(d, s + Len(DescLit)))

\* the start positions at which descRegex matches
MatchStarts(d) ==
    {s \in 1..Len(d) : HasLit(d, s) /\ MatchClient(d, s + Len(DescLit)) # 0}

\* descRegex.FindStringSubmatch(d): <<whole, clientid, cid, fsoptype, inode>>
\* of the leftmost match, <<>> when the description does not match
FindStringSubmatch(d) ==
    IF MatchStarts(d) = {} THEN <<>> ELSE MatchFrom1(d, Min(MatchStarts(d)))

\* descRegex.SubexpNames()
SubexpNames == <<"", "clientid", "cid", "fsoptype", "inode">>

\* the groups of getGroups for the submatches match
groupsOf(match) ==
    [name \in {SubexpNames[i + 1] : i \in {j \in 1..(Len(SubexpNames) - 1) : j <= Len(match)}} |->
        match[(CHOOSE i \in 1..(Len(SubexpNames) - 1) : SubexpNames[i + 1] = name) + 1]]

\* getGroups: the map from group name to matched text
getGroups(d) == groupsOf(FindStringSubmatch(d))

NoOpDesc == [err |-> TRUE, fsOpType |-> <<>>, inode |-> <<>>, clientID |-> <<>>]

\* the body of extractOpFromDescription for the submatches and groups found
opDescOf(matches, groups) ==
    IF Len(matches) = 0 THEN NoOpDesc
    ELSE IF "clientid" \notin DOMAIN groups THEN NoOpDesc
    ELSE IF "fsoptype" \notin DOMAIN groups THEN NoOpDesc
    ELSE IF "inode" \notin DOMAIN groups THEN NoOpDesc
    ELSE [err |-> FALSE, fsOpType |-> groups["fsoptype"],
          inode |-> groups["inode"], clientID |-> groups["clientid"]]

\* extractOpFromDescription: err = TRUE stands for the returned error
extractOpFromDescription(desc) ==
    opDescOf(FindStringSubmatch(desc), getGroups(desc))

(***************************************************************************)
(* mdsLabels, Hash and UnHash                                              *)
(***************************************************************************)

\* the fields of mdsLabels in declaration order
LabelFields == <<"FSName", "MDSName", "State", "OpType", "FSOpType", "FlagPoint", "Inode">>

\* var ml mdsLabels
ZeroLabels == [f \in {LabelFields[i] : i \in 1..Len(LabelFields)} |-> <<>>]

\* gob encoding of the struct value: the fields holding a non-empty string,
\* each as <<field-number delta, value>>; empty fields are not transmitted
RECURSIVE HashFrom(_, _, _)
HashFrom(ml, i, last) ==
    IF i > Len(LabelFields) THEN <<>>
    ELSE IF ml[LabelFields[i]] = <<>> THEN HashFrom(ml, i + 1, last)
    ELSE <<<<i - last, ml[LabelFields[i]]>>>> \o HashFrom(ml, i + 1, i)

\* an encoding that writes the non-empty values without their field numbers
HashValues(ml) ==
    SelectSeq([i \in 1..Len(LabelFields) |-> <<1, ml[LabelFields[i]]>>],
              LAMBDA e : e[2] # <<>>)

Hash(ml) == HashFrom(ml, 1, 0)

\* gob decoding into ml: each transmitted field is stored at the field number
\* reached by adding its delta, the other fields keep the value ml had
RECURSIVE UnHashFrom(_, _, _, _)
UnHashFrom(ml, hash, k, last) ==
    IF k > Len(hash) THEN ml
    ELSE LET i == last + hash[k][1]
         IN UnHashFrom([ml EXCEPT ![LabelFields[i]] = hash[k][2]], hash, k + 1, i)

UnHash(ml, hash) == UnHashFrom(ml, hash, 1, 0)

(***************************************************************************)
(* Cluster responses                                                       *)
(*                                                                         *)
(* A world is what the four query functions return during one pass:        *)
(* res is "err" (the command failed), "bad" (its output is not valid JSON) *)
(* or "ok" (the decoded payload follows).                                  *)
(***************************************************************************)

\* runMDSStatFn
runMDSStatFn(w) == w.stat

\* runCephHealthDetailFn
runCephHealthDetailFn(w) == w.health

StatusFailed == [res |-> "err", FsName |-> <<>>, State |-> <<>>]

OpsFailed == [res |-> "err", Ops |-> <<>>]

\* runMDSStatusFn: the status of the daemon addressed as mds
runMDSStatusFn(w, mds) ==
    IF mds \in DOMAIN w.status THEN w.status[mds] ELSE StatusFailed

\* runBlockedOpsCheckFn: the blocked-ops dump of the daemon addressed as mds
runBlockedOpsCheckFn(w, mds) ==
    IF mds \in DOMAIN w.ops THEN w.ops[mds] ELSE OpsFailed

(***************************************************************************)
(* One collection pass                                                     *)
(*                                                                         *)
(* The result of a pass is the record                                      *)
(*   err     : the error collect returns, "" for nil                       *)
(*   sends   : the samples offered to m.ch, in order; from is 0 for a      *)
(*             daemon-state sample and the index of the detail message for *)
(*             a blocked-ops sample                                        *)
(*   queries : the cluster queries issued, in order                        *)
(*   logs    : the errors logged by collectMDSSlowOps, in order            *)
(* Go maps and sync.Map are iterated in an unspecified order, so a pass    *)
(* over one world has a set of possible results.                           *)
(***************************************************************************)

EmptyResult == [err |-> "", sends |-> <<>>, queries |-> <<>>, logs |-> <<>>]

Query(st, q, mds, j) ==
    [st EXCEPT !.queries = Append(@, [q |-> q, mds |-> mds, msg |-> j])]

Log(st, text, j) ==
    [st EXCEPT !.logs = Append(@, [text |-> text, msg |-> j])]

Offer(st, metrics, j) ==
    [st EXCEPT !.sends = @ \o [k \in 1..Len(metrics) |-> [m |-> metrics[k], from |-> j]]]

\* prometheus.MustNewConstMetric(m.MDSState, GaugeValue, 1, fs, name, rank, state)
MDSStateMetric(fsname, info) ==
    [desc |-> "mds_daemon_state", kind |-> "gauge", value |-> 1,
     labels |-> <<fsname, info.Name, Itoa(info.Rank), info.State>>]

\* prometheus.MustNewConstMetric(m.MDSBlockedOps, CounterValue, v, labels...)
MDSBlockedOpsMetric(ml, v) ==
    [desc |-> "mds_blocked_ops", kind |-> "counter", value |-> v,
     labels |-> <<ml.FSName, ml.MDSName, ml.State, ml.OpType,
                  ml.FSOpType, ml.FlagPoint, ml.Inode>>]

ClientRequest == <<"c","l","i","e","n","t","_","r","e","q","u","e","s","t">>

\* the assignments ml.FSName .. ml.FlagPoint for one operation record
labelsOf(ml, op, mss, mdsName) ==
    [ml EXCEPT !.FSName = mss.FsName, !.MDSName = mdsName, !.State = mss.State,
               !.OpType = op.OpType, !.FlagPoint = op.FlagPoint]

\* a counter that is stored anew for every record instead of incremented
addOneReset(metricMap, h) ==
    [(IF h \in DOMAIN metricMap THEN metricMap ELSE metricMap @@ (h :> 0))
        EXCEPT ![h] = 1]

\* metricMap.LoadOrStore(h, new(int32)) followed by atomic.AddInt32(v, 1)
addOne(metricMap, h) ==
    [(IF h \in DOMAIN metricMap THEN metricMap ELSE metricMap @@ (h :> 0))
        EXCEPT ![h] = @ + 1]

countOp(acc, ml) == [acc EXCEPT !.metricMap = addOne(@, Hash(ml))]

\* a client_request record that is counted even when its description failed
\* to parse
clientOpNoSkip(op, opd, i, mss, mdsName, acc) ==
    countOp(acc, labelsOf([ZeroLabels EXCEPT !.FSOpType = opd.fsOpType,
                                             !.Inode = opd.inode],
                          op, mss, mdsName))

\* a client_request record whose description was parsed to opd
clientOp(op, opd, i, mss, mdsName, acc) ==
    IF opd.err
    THEN [acc EXCEPT !.skipped = Append(@, i)]
    ELSE countOp(acc, labelsOf([ZeroLabels EXCEPT !.FSOpType = opd.fsOpType,
                                                  !.Inode = opd.inode],
                               op, mss, mdsName))

\* a loop body that parses the description of every record, of any type
opStepParseAll(op, i, mss, mdsName, acc) ==
    clientOp(op, extractOpFromDescription(op.Description), i, mss, mdsName, acc)

\* the body of the loop over mso.Ops for record i
opStep(op, i, mss, mdsName, acc) ==
    IF op.OpType = ClientRequest
    THEN clientOp(op, extractOpFromDescription(op.Description), i, mss, mdsName, acc)
    ELSE countOp(acc, labelsOf(ZeroLabels, op, mss, mdsName))

\* the loop over mso.Ops from record i on: metricMap as a function from Hash
\* to count, and the indexes of the records skipped
RECURSIVE opsLoop(_, _, _, _, _)
opsLoop(ops, i, mss, mdsName, acc) ==
    IF i > Len(ops) THEN acc
    ELSE opsLoop(ops, i + 1, mss, mdsName, opStep(ops[i], i, mss, mdsName, acc))

EmptyMap == [h \in {} |-> 0]

\* a metricMap kept in the collector: it starts a pass with the counters of
\* the blocked-ops samples of the Collect calls made so far
CarriedAcc ==
    LET old == UNION {{calls[c].pass.sends[k].m : k \in 1..Len(calls[c].pass.sends)} :
                         c \in 1..Len(calls)}
        ops == {m \in old : m.desc = "mds_blocked_ops"}
        mlOf(m) == [f \in DOMAIN ZeroLabels |->
                       m.labels[CHOOSE i \in 1..Len(LabelFields) : LabelFields[i] = f]]
    IN [metricMap |-> [h \in {Hash(mlOf(m)) : m \in ops} |->
                          (CHOOSE m \in ops : Hash(mlOf(m)) = h).value],
        skipped |-> <<>>]

\* var metricMap sync.Map, and no record skipped yet
EmptyAcc == [metricMap |-> EmptyMap, skipped |-> <<>>]

\* metricMap.Range in the order keys: one blocked-ops sample per key
rangeMetrics(metricMap, keys) ==
    [k \in 1..Len(keys) |->
        MDSBlockedOpsMetric(UnHash(ZeroLabels, keys[k]), metricMap[keys[k]])]

RECURSIVE logSkipped(_, _, _, _)
logSkipped(st, skipped, k, j) ==
    IF k > Len(skipped) THEN st
    ELSE logSkipped(Log(st, "failed parsing blocked ops description", j), skipped, k + 1, j)

RECURSIVE detailLoop(_, _, _, _)

\* message j: the records were counted into r; Range offers the samples
emitStep(w, detail, j, st, r) ==
    UNION {detailLoop(w, detail, j + 1,
                      Offer(logSkipped(st, r.skipped, 1, j),
                            rangeMetrics(r.metricMap, keys), j)) :
              keys \in Perms(DOMAIN r.metricMap)}

\* message j: the blocked-ops query returned mso
opsStep(w, detail, j, st, mdsName, mss, mso) ==
    IF mso.res = "err" THEN {Log(st, "failed getting blocked ops from mds", j)}
    ELSE IF mso.res = "bad" THEN {Log(st, "failed unmarshalling mds blocked ops", j)}
    ELSE emitStep(w, detail, j, st, opsLoop(mso.Ops, 1, mss, mdsName, EmptyAcc))

\* message j: the status query returned mss
statusStep(w, detail, j, st, mdsName, mss) ==
    IF mss.res = "err" THEN {Log(st, "failed getting status from mds", j)}
    ELSE IF mss.res = "bad" THEN {Log(st, "failed unmarshalling mds status", j)}
    ELSE opsStep(w, detail, j, Query(st, "dump_blocked_ops", mdsName, j), mdsName, mss,
                 runBlockedOpsCheckFn(w, mdsName))

\* a daemon name taken from the part that follows the "("
mdsNameAfterParen(mdsNameParts) == mdsNameParts[2]

\* mdsName := mdsNameParts[0]
mdsNameOf(mdsNameParts) == mdsNameParts[1]

\* message j names the daemon mdsName
daemonStep(w, detail, j, st, mdsName) ==
    statusStep(w, detail, j, Query(st, "status", mdsName, j), mdsName,
               runMDSStatusFn(w, mdsName))

\* a malformed message that ends the loop instead of being skipped
messageStepAbort(w, detail, j, st, mdsNameParts) ==
    IF Len(mdsNameParts) # 2
    THEN {Log(st, "invalid mds slow request message found, check syntax", j)}
    ELSE daemonStep(w, detail, j, st, mdsNameOf(mdsNameParts))

\* message j was split into mdsNameParts
messageStep(w, detail, j, st, mdsNameParts) ==
    IF Len(mdsNameParts) # 2
    THEN detailLoop(w, detail, j + 1,
                    Log(st, "invalid mds slow request message found, check syntax", j))
    ELSE daemonStep(w, detail, j, st, mdsNameOf(mdsNameParts))

\* the loop over check.Detail from message j on, continuing from result st
detailLoop(w, detail, j, st) ==
    IF j > Len(detail) THEN {st}
    ELSE messageStep(w, detail, j, st, Split(detail[j], "("))

\* the key of hc.Checks that collectMDSSlowOps looks up
SlowRequest == "MDS_SLOW_REQUEST"

\* a collectMDSSlowOps that reads the detail of whatever check is present
slowOpsOfAnyCheck(w, st, hc) ==
    IF hc.res = "err" THEN {Log(st, "failed getting health detail", 0)}
    ELSE IF hc.res = "bad" THEN {Log(st, "failed unmarshalling health detail", 0)}
    ELSE IF DOMAIN hc.Checks = {} THEN {st}
    ELSE detailLoop(w, hc.Checks[CHOOSE c \in DOMAIN hc.Checks : TRUE].Detail, 1, st)

\* collectMDSSlowOps after the health-detail query returned hc
slowOpsOf(w, st, hc) ==
    IF hc.res = "err" THEN {Log(st, "failed getting health detail", 0)}
    ELSE IF hc.res = "bad" THEN {Log(st, "failed unmarshalling health detail", 0)}
    ELSE IF SlowRequest \notin DOMAIN hc.Checks THEN {st}
    ELSE detailLoop(w, hc.Checks[SlowRequest].Detail, 1, st)

\* collectMDSSlowOps, continuing from result st
collectMDSSlowOps(w, st) ==
    slowOpsOf(w, Query(st, "health detail", <<>>, 0), runCephHealthDetailFn(w))

\* the daemon-state samples of filesystem fs, one per entry of its Info map,
\* in each order the map can be iterated in
stateMetrics(fs) ==
    {[k \in 1..Len(gids) |-> MDSStateMetric(fs.FSName, fs.Info[gids[k]])] :
        gids \in Perms(DOMAIN fs.Info)}

\* the loops over ms.FSMap.Filesystems and fs.MDSMap.Info for filesystems
\* lo..hi in order: the samples of the first half followed by those of the
\* second half
RECURSIVE statLoop(_, _, _)
statLoop(fss, lo, hi) ==
    IF lo > hi THEN {<<>>}
    ELSE IF lo = hi THEN stateMetrics(fss[lo])
    ELSE {h \o t : h \in statLoop(fss, lo, (lo + hi) \div 2),
                   t \in statLoop(fss, (lo + hi) \div 2 + 1, hi)}

\* a collect that goes on to the slow-op collection after mds stat failed
collectOfContinue(w, st, ms) ==
    IF ms.res = "err" THEN collectMDSSlowOps(w, [st EXCEPT !.err = "failed getting mds stat"])
    ELSE IF ms.res = "bad"
    THEN collectMDSSlowOps(w, [st EXCEPT !.err = "failed unmarshalling mds stat json"])
    ELSE UNION {collectMDSSlowOps(w, Offer(st, metrics, 0)) :
                   metrics \in statLoop(ms.Filesystems, 1, Len(ms.Filesystems))}

\* collect after the mds stat query returned ms
collectOf(w, st, ms) ==
    IF ms.res = "err" THEN {[st EXCEPT !.err = "failed getting mds stat"]}
    ELSE IF ms.res = "bad" THEN {[st EXCEPT !.err = "failed unmarshalling mds stat json"]}
    ELSE UNION {collectMDSSlowOps(w, Offer(st, metrics, 0)) :
                   metrics \in statLoop(ms.Filesystems, 1, Len(ms.Filesystems))}

\* collect: the set of possible results of one pass over world w
collect(w) == collectOf(w, Query(EmptyResult, "mds stat", <<>>, 0), runMDSStatFn(w))

(***************************************************************************)
(* The inputs: strings, payloads and worlds                                *)
(***************************************************************************)

FsA == <<"f","s">>

UpActive == <<"u","p">>

Flag == <<"w","a","i","t">>

\* detail messages: NAME(rest
MsgA == <<"a","(","0",")">>

MsgA2 == <<"a","(","1",")">>

MsgB == <<"b","(","1",")">>

\* no '(' at all
MsgNoParen == <<"a"," ","0">>

\* more than one '('
MsgTwoParen == <<"a","(","0",")","(">>

\* descriptions of client requests
DescRm1 == DescLit \o <<"1","2",":","3","4"," ","r","m"," ","#","0","x","1","/">>

DescRm2 == DescLit \o <<"5","6",":","7","8"," ","r","m"," ","#","0","x","1","/">>

DescLs == DescLit \o <<"1","2",":","3","4"," ","l","s"," ","#","7"," ">>

DescBad == DescLit \o <<"1","2",":","3","4"," ","r","m"," ","0","x","1","/">>

OpRm1 == [OpType |-> ClientRequest, FlagPoint |-> Flag, Description |-> DescRm1]

OpRm2 == [OpType |-> ClientRequest, FlagPoint |-> Flag, Description |-> DescRm2]

OpLs == [OpType |-> ClientRequest, FlagPoint |-> Flag, Description |-> DescLs]

OpBad == [OpType |-> ClientRequest, FlagPoint |-> Flag, Description |-> DescBad]

OpInternal == [OpType |-> <<"i","o">>, FlagPoint |-> Flag, Description |-> DescBad]

\* a record of another type whose description reads like a client request
OpInternalRm == [OpType |-> <<"i","o">>, FlagPoint |-> Flag, Description |-> DescRm1]

OpMenu == {OpRm1, OpRm2, OpBad, OpInternal}

\* the dumps of at most MaxOps records over OpMenu
Dumps == UNION {[1..n -> OpMenu] : n \in 0..MaxOps}

DumpMenu == {<<OpRm1, OpRm2>>, <<OpRm1, OpBad, OpInternal>>, <<OpInternalRm, OpRm1, OpInternal>>}

DetailMenu == {<<MsgA>>, <<MsgNoParen, MsgA>>, <<MsgA, MsgA2>>, <<MsgB, MsgA>>,
               <<MsgTwoParen, MsgB>>}

DaemonA == [Name |-> <<"a">>, Rank |-> 0, State |-> UpActive]

DaemonB == [Name |-> <<"b">>, Rank |-> 1, State |-> UpActive]

StatOK(fss) == [res |-> "ok", Filesystems |-> fss]

StatFail(res) == [res |-> res, Filesystems |-> <<>>]

\* hc.Checks with no check, with the slow-request check only, and with a
\* check of another name only
NoChecks == [c \in {} |-> [Detail |-> <<>>]]

SlowCheck(detail) == (SlowRequest :> [Detail |-> detail])

OtherCheck(detail) == ("MDS_CLIENT_LATE_RELEASE" :> [Detail |-> detail])

HealthOK(checks) == [res |-> "ok", Checks |-> checks]

HealthFail(res) == [res |-> res, Checks |-> NoChecks]

StatusOK == [res |-> "ok", FsName |-> FsA, State |-> UpActive]

OpsOK(ops) == [res |-> "ok", Ops |-> ops]

OneFs == <<[FSName |-> FsA, Info |-> (1 :> DaemonA)]>>

World(stat, health, statusA, opsA, statusB, opsB) ==
    [stat |-> stat, health |-> health,
     status |-> (<<"a">> :> statusA) @@ (<<"b">> :> statusB),
     ops |-> (<<"a">> :> opsA) @@ (<<"b">> :> opsB)]

\* one daemon up, the slow-request check present with the given detail and
\* the given dump for daemon a
SlowWorld(detail, dumpA) ==
    World(StatOK(OneFs), HealthOK(SlowCheck(detail)),
          StatusOK, OpsOK(dumpA), StatusOK, OpsOK(<<OpLs>>))

\* no slow requests: the health payload has the given checks, none of them
\* the slow-request check
QuietWorldOf(checks) == World(StatOK(OneFs), HealthOK(checks),
                              StatusOK, OpsOK(<<OpRm1>>), StatusOK, OpsOK(<<OpLs>>))

QuietWorld == QuietWorldOf(NoChecks)

QuietWorlds == {QuietWorld, QuietWorldOf(OtherCheck(<<MsgA>>))}

\* the worlds in which one query fails or returns undecodable output
FailWorlds ==
    {World(StatFail(r), HealthOK(SlowCheck(<<MsgA>>)), StatusOK, OpsOK(<<OpRm1>>),
           StatusOK, OpsOK(<<OpLs>>)) : r \in {"err", "bad"}}
    \cup
    {World(StatOK(OneFs), HealthFail(r), StatusOK, OpsOK(<<OpRm1>>),
           StatusOK, OpsOK(<<OpLs>>)) : r \in {"err", "bad"}}
    \cup
    {World(StatOK(OneFs), HealthOK(SlowCheck(<<MsgA, MsgB>>)),
           [StatusOK EXCEPT !.res = r], OpsOK(<<OpRm1>>),
           StatusOK, OpsOK(<<OpLs>>)) : r \in {"err", "bad"}}
    \cup
    {World(StatOK(OneFs), HealthOK(SlowCheck(<<MsgB, MsgA>>)),
           StatusOK, [res |-> r, Ops |-> <<>>],
           StatusOK, OpsOK(<<OpLs>>)) : r \in {"err", "bad"}}

\* a cluster with n filesystems of one daemon each
ManyFs(n) == [i \in 1..n |-> [FSName |-> Itoa(i), Info |-> (1 :> DaemonA)]]

\* the worlds of the three scenarios
SmallWorlds == {QuietWorld, SlowWorld(<<MsgA>>, <<OpRm1>>),
                World(StatFail("err"), HealthOK(NoChecks), StatusOK, OpsOK(<<>>),
                      StatusOK, OpsOK(<<>>))}

AggWorlds == {SlowWorld(<<MsgA>>, u) : u \in Dumps}
             \cup {SlowWorld(d, u) : d \in DetailMenu, u \in DumpMenu}
             \cup FailWorlds \cup QuietWorlds

FullWorlds == {World(StatOK(ManyFs(ChanCap + 1)), HealthOK(NoChecks),
                     StatusOK, OpsOK(<<>>), StatusOK, OpsOK(<<>>)),
               World(StatOK(ManyFs(ChanCap - 1)), HealthOK(SlowCheck(<<MsgA>>)),
                     StatusOK, OpsOK(<<OpRm1, OpInternal>>), StatusOK, OpsOK(<<>>))}

\* the background loop: a pass that succeeds and a pass that returns an error
LoopWorlds == {QuietWorld,
               World(StatFail("err"), HealthOK(NoChecks), StatusOK, OpsOK(<<>>),
                     StatusOK, OpsOK(<<>>))}

Worlds == IF scenario = "full" THEN FullWorlds
          ELSE IF scenario = "loop" THEN LoopWorlds
          ELSE IF scenario = "agg" THEN AggWorlds
          ELSE SmallWorlds

\* the limits of a scenario: "small" explores concurrency, "agg" one pass over
\* many payloads, "full" one pass that overflows the buffer, "loop" one
\* background task whose passes are neither limited nor numbered, "serial"
\* the calls and passes of "small" with one Collect call in progress at a time
CallLimit == IF scenario \in {"small", "serial"} THEN MaxCalls ELSE 1

ConcurrentLimit == IF scenario = "small" THEN MaxConcurrent ELSE 1

PassLimit == IF scenario \in {"small", "serial"} THEN MaxPasses ELSE 1

(***************************************************************************)
(* The one-shot collectors and the exporter.  Their code is not among the  *)
(* sources (only their tests are); they follow sections 4.2, 4.5 and 7 of  *)
(* the specification and the expectations of the tests.                    *)
(***************************************************************************)

Cluster == "ceph"

Gauge(desc, labels, value) ==
    [desc |-> desc, kind |-> "gauge", value |-> value, labels |-> labels]

\* the result of one collector for one scrape
CollectorResult(samples, errors) == [samples |-> samples, errors |-> errors]

ZeroGC == [activeTasks |-> 0, activeObjects |-> 0, pendingTasks |-> 0, pendingObjects |-> 0]

\* a GC task counted as active also when its timestamp is now
gcActiveNotAfter(task, now) == ~(task.time > now)

\* a GC task is active when its timestamp is past; the remainder is pending
gcActive(task, now) == task.time < now

gcAdd(acc, task, now) ==
    IF gcActive(task, now)
    THEN [acc EXCEPT !.activeTasks = @ + 1, !.activeObjects = @ + Len(task.objs)]
    ELSE [acc EXCEPT !.pendingTasks = @ + 1, !.pendingObjects = @ + Len(task.objs)]

\* the loop over the GC task list from entry i on
RECURSIVE gcCount(_, _, _, _)
gcCount(tasks, now, i, acc) ==
    IF i > Len(tasks) THEN acc
    ELSE gcCount(tasks, now, i + 1, gcAdd(acc, tasks[i], now))

gcSamples(acc) ==
    {Gauge("rgw_gc_active_tasks", <<Cluster>>, acc.activeTasks),
     Gauge("rgw_gc_active_objects", <<Cluster>>, acc.activeObjects),
     Gauge("rgw_gc_pending_tasks", <<Cluster>>, acc.pendingTasks),
     Gauge("rgw_gc_pending_objects", <<Cluster>>, acc.pendingObjects)}

\* a GC collection that reports zeros when the task list could not be read
rgwCollectGCZeros(gc, now) ==
    IF gc.res = "ok" THEN CollectorResult(gcSamples(gcCount(gc.tasks, now, 1, ZeroGC)), {})
    ELSE CollectorResult(gcSamples(ZeroGC), {"rgw gc"})

\* the GC family: getRGWGCTaskList, decode, count, four gauges
rgwCollectGC(gc, now) ==
    IF gc.res = "ok" THEN CollectorResult(gcSamples(gcCount(gc.tasks, now, 1, ZeroGC)), {})
    ELSE CollectorResult({}, {"rgw gc"})

\* a reshard collection that reports the gauge and no bucket sample
rgwCollectReshardGaugeOnly(rs) ==
    IF rs.res = "ok"
    THEN CollectorResult({Gauge("rgw_active_reshards", <<Cluster>>, Len(rs.entries))}, {})
    ELSE CollectorResult({}, {"rgw reshard"})

\* the reshard family: getRGWReshardList, decode, one gauge for the number
\* of entries and one sample per entry labelled with its bucket
rgwCollectReshard(rs) ==
    IF rs.res = "ok"
    THEN CollectorResult(
            {Gauge("rgw_active_reshards", <<Cluster>>, Len(rs.entries))}
            \cup {Gauge("rgw_bucket_reshard", <<rs.entries[i].bucket_name, Cluster>>, 1) :
                     i \in 1..Len(rs.entries)}, {})
    ELSE CollectorResult({}, {"rgw reshard"})

rgwCollect(in) ==
    CollectorResult(rgwCollectGC(in.gc, in.now).samples \cup rgwCollectReshard(in.reshard).samples,
                    rgwCollectGC(in.gc, in.now).errors \cup rgwCollectReshard(in.reshard).errors)

\* the numeric stats of a pool entry and the metric each one feeds
PoolFields == {"stored", "stored_raw", "max_avail", "percent_used", "objects",
               "dirty", "rd", "rd_bytes", "wr", "wr_bytes"}

PoolMetricName(f) ==
    CASE f = "stored" -> "pool_used_bytes"
      [] f = "stored_raw" -> "pool_raw_used_bytes"
      [] f = "max_avail" -> "pool_available_bytes"
      [] f = "percent_used" -> "pool_percent_used"
      [] f = "objects" -> "pool_objects_total"
      [] f = "dirty" -> "pool_dirty_objects_total"
      [] f = "rd" -> "pool_read_total"
      [] f = "rd_bytes" -> "pool_read_bytes_total"
      [] f = "wr" -> "pool_write_total"
      [] f = "wr_bytes" -> "pool_write_bytes_total"

\* the samples of a pool entry that leave out the stats absent from it
poolSamplesPresent(pool) ==
    {Gauge(PoolMetricName(f), <<Cluster, pool.name>>, pool.stats[f]) :
        f \in PoolFields \cap DOMAIN pool.stats}

\* a stat absent from the payload decodes to the zero value
statOf(stats, f) == IF f \in DOMAIN stats THEN stats[f] ELSE 0

\* the fixed set of samples of one pool entry
poolSamples(pool) ==
    {Gauge(PoolMetricName(f), <<Cluster, pool.name>>, statOf(pool.stats, f)) : f \in PoolFields}

\* the pool usage collector: query, decode, the samples of every pool
poolCollect(pl) ==
    IF pl.res = "ok"
    THEN CollectorResult(UNION {poolSamples(pl.pools[i]) : i \in 1..Len(pl.pools)}, {})
    ELSE CollectorResult({}, {"poolUsage"})

\* the collector registered under name n, run on the payloads in
collectorOf(n, in) == IF n = "rgw" THEN rgwCollect(in) ELSE poolCollect(in.pools)

\* a merge that gives up the whole scrape when a collector reports an error
mergeAbort(e, n, r) ==
    IF r.errors = {}
    THEN [e EXCEPT !.ran = @ \cup {n}, !.body = @ \cup r.samples]
    ELSE [e EXCEPT !.ran = e.registry, !.body = {}, !.logs = @ \cup r.errors,
                   !.status = 500]

\* the exporter merges the samples of collector n and logs its errors
merge(e, n, r) ==
    [e EXCEPT !.ran = @ \cup {n}, !.body = @ \cup r.samples, !.logs = @ \cup r.errors]

\* the exporter before any scrape, and the one of the MDS scenarios
NoExp == [pc |-> "off", registry |-> {}, in |-> <<>>, ran |-> {}, body |-> {},
          logs |-> {}, status |-> 200]

(***************************************************************************)
(* The payloads the gateway answers a one-shot collector with.             *)
(***************************************************************************)

\* the most entries of a GC task list and of a reshard list
MaxTasks == 2
MaxReshards == 2

SeqsUpTo(S, n) == UNION {[1..k -> S] : k \in 0..n}

Times == {0, 1, 2}
ObjLists == {<<>>, <<"o1">>, <<"o1", "o2">>, <<"o1", "o2", "o3">>}
GCTasks == [time : Times, objs : ObjLists]

\* the task lists of the shape TestRGWGC feeds: two tasks of two objects and
\* a task of three, at any times
TestGCLists ==
    {t \in [1..3 -> GCTasks] :
        Len(t[1].objs) = 2 /\ Len(t[2].objs) = 2 /\ Len(t[3].objs) = 3}

\* an answer is decoded ("ok"), a query error ("err") or undecodable ("bad")
Failed(kind) == [res |-> kind, tasks |-> <<>>, entries |-> <<>>, pools |-> <<>>]
Answer(field, v) == [Failed("ok") EXCEPT ![field] = v]
Failures == {Failed("err"), Failed("bad")}

GCAnswers ==
    {Answer("tasks", t) : t \in SeqsUpTo(GCTasks, MaxTasks) \cup TestGCLists} \cup Failures
Buckets == {"bucket-1", "bucket-2"}
ReshardAnswers ==
    {Answer("entries", e) : e \in SeqsUpTo([bucket_name : Buckets], MaxReshards)} \cup Failures

StatsFull == [f \in PoolFields |->
                 CASE f = "stored" -> 20 [] f = "objects" -> 5 [] f = "rd" -> 4
                   [] f = "wr" -> 6 [] f = "max_avail" -> 7 [] f = "percent_used" -> 1
                   [] OTHER -> 3]
Without(stats, fs) == [f \in DOMAIN stats \ fs |-> stats[f]]
\* the stats TestPoolUsageCollector feeds, by pool and by the fields present;
\* the values that are no 32-bit integers (byte counts above 2^31, a
\* fraction) are stood for by those of StatsFull
TestStats ==
    [rbd |-> [f \in {"stored", "objects", "rd", "wr"} |->
                 CASE f = "stored" -> 20 [] f = "objects" -> 5 [] f = "rd" -> 4 [] OTHER -> 6],
     rbd_new |-> [f \in {"stored", "objects", "rd", "wr"} |->
                     CASE f = "stored" -> 50 [] f = "objects" -> 20 [] f = "rd" -> 10
                       [] OTHER -> 30],
     ssd_avail |-> [f \in {"max_avail", "objects", "rd", "wr"} |->
                       CASE f = "objects" -> 5 [] f = "rd" -> 4 [] f = "wr" -> 6
                         [] OTHER -> StatsFull[f]],
     ssd_percent |-> [f \in {"percent_used", "objects", "rd", "wr"} |->
                         CASE f = "objects" -> 5 [] f = "rd" -> 4 [] f = "wr" -> 6
                           [] OTHER -> StatsFull[f]],
     cinder_sas |-> [f \in PoolFields \ {"percent_used"} |->
                        CASE f = "objects" -> 17124 [] f = "dirty" -> 17124
                          [] f = "rd" -> 348986643 [] f = "wr" -> 45792703
                          [] OTHER -> StatsFull[f]],
     cinder_ssd |-> [f \in PoolFields \ {"percent_used"} |->
                        CASE f = "objects" -> 16461 [] f = "dirty" -> 16461
                          [] f = "rd" -> 347 [] f = "rd_bytes" -> 12899328
                          [] f = "wr" -> 26721 [] OTHER -> StatsFull[f]]]

StatsMenu == {StatsFull, Without(StatsFull, {"stored"}), Without(StatsFull, {"objects"}),
              Without(StatsFull, {"rd"}), Without(StatsFull, {"wr"}),
              Without(StatsFull, PoolFields \ {"objects"}), Without(StatsFull, PoolFields),
              TestStats.rbd, Without(TestStats.rbd, {"stored"}), Without(TestStats.rbd, {"objects"}),
              Without(TestStats.rbd, {"rd"}), Without(TestStats.rbd, {"wr"}), TestStats.rbd_new,
              TestStats.ssd_avail, TestStats.ssd_percent, TestStats.cinder_sas, TestStats.cinder_ssd}

\* the pools of the generated lists, and with them those the tests name
BasePools == {"rbd", "ssd"}
PoolNames == BasePools \cup {"rbd-new", "cinder_sas", "cinder_ssd"}

\* the lists of two pools TestPoolUsageCollector feeds
TestPoolLists ==
    {<<[name |-> "rbd", stats |-> TestStats.rbd], [name |-> "rbd-new", stats |-> TestStats.rbd_new]>>,
     <<[name |-> "cinder_sas", stats |-> TestStats.cinder_sas],
       [name |-> "cinder_ssd", stats |-> TestStats.cinder_ssd]>>}

\* every list of pools of distinct names over BasePools, and the lists of
\* the tests
PoolLists ==
    {p \in SeqsUpTo([name : BasePools, stats : StatsMenu], Cardinality(BasePools)) :
        \A i, j \in 1..Len(p) : p[i].name = p[j].name => i = j}
    \cup TestPoolLists
PoolAnswers == {Answer("pools", p) : p \in PoolLists} \cup Failures

ExpInput(now, gc, reshard, pools) ==
    [now |-> now, gc |-> gc, reshard |-> reshard, pools |-> pools]

\* the RGW collector alone, over every task list and every reshard list
RgwInputs == {ExpInput(now, gc, rs, Failed("err")) :
                 now \in Times, gc \in GCAnswers, rs \in ReshardAnswers}

\* the RGW and the pool usage collector together
ExporterInputs ==
    {ExpInput(1, gc, rs, pl) :
        gc \in {Answer("tasks", <<>>), Answer("tasks", <<[time |-> 0, objs |-> <<"o1">>]>>)}
               \cup {Answer("tasks", t) : t \in TestGCLists} \cup Failures,
        rs \in {Answer("entries", <<>>), Answer("entries", <<[bucket_name |-> "bucket-1"]>>),
                Failed("err")},
        pl \in PoolAnswers}

(***************************************************************************)
(* Descriptions handed to extractOpFromDescription                         *)
(***************************************************************************)

\* no call of extractOpFromDescription
NoParse == [pc |-> "off", parts |-> <<>>, desc |-> <<>>, result |-> NoOpDesc]

ClientIds == {<<"2","0","0","0","1","9","7","4","1","8","2">>, <<"4","2">>, <<"7">>}
RequestIds == {<<"3","4","4","1","5","1">>, <<"3","4">>, <<"5">>}
Verbs == {<<"r","m","d","i","r">>, <<"l","s">>}
Middles == {<<>>, <<"-","p"," ">>}
Inodes == {<<"0","x","1","0","0","0","0","0","0","0","0","3","0">>, <<"0","x","1","F">>, <<"7","7">>}
Rests == {<<"/",".",".",".",")">>, <<")">>, <<" ","x",")">>}

\* client_request(client.<clientid>:<requestid> <verb> ...#<inode>...
DescParts == [clientid : ClientIds, cid : RequestIds, fsoptype : Verbs,
              middle : Middles, inode : Inodes, rest : Rests]

DescOfParts(p) ==
    DescLit \o p.clientid \o <<":">> \o p.cid \o <<" ">> \o p.fsoptype \o <<" ">>
            \o p.middle \o <<"#">> \o p.inode \o p.rest

\* descriptions that are not of that form
OtherDescs == {<<>>, DescBad, <<"i","n","t","e","r","n","a","l"," ","o","p">>, <<"c","l","i","e","n","t","_","r","e","q","u","e","s","t","(","m","d","s",".","1","2",":","3","4"," ","r","m"," ","#","0","x","1","/",")">>}

(***************************************************************************)
(* Describe                                                                *)
(***************************************************************************)

\* collectorList(): no collectors
collectorList == {}

\* descriptorList(): m.MDSState alone
descriptorList == {"mds_daemon_state"}

\* Describe: the descriptors sent to the channel and the cluster queries made
Describe == [descs |-> collectorList \cup descriptorList, queries |-> <<>>]

(***************************************************************************)
(* Label tuples handed to Hash and UnHash                                  *)
(***************************************************************************)

\* nothing encoded
NoEnc == [pc |-> "off", a |-> ZeroLabels, b |-> ZeroLabels, ha |-> <<>>, hb |-> <<>>,
          back |-> ZeroLabels]

\* label tuples whose fields are empty or hold the same one-letter string, so
\* that two tuples can differ in nothing but the place of a value
LabelTuples == [DOMAIN ZeroLabels -> {<<>>, <<"a">>}]

(***************************************************************************)
(* The collector as a state machine                                        *)
(***************************************************************************)

NoWorld == World(StatFail("err"), HealthFail("err"), StatusFailed, OpsFailed,
                 StatusFailed, OpsFailed)

\* no pass begun
NoPass == [w |-> NoWorld, begun |-> FALSE, err |-> "", sends |-> <<>>,
           queries |-> <<>>, logs |-> <<>>, k |-> 0, dropped |-> {}]

\* a pass over w with result r, none of its samples offered yet
NewPass(w, r) == [w |-> w, begun |-> TRUE, err |-> r.err, sends |-> r.sends,
                  queries |-> r.queries, logs |-> r.logs, k |-> 0, dropped |-> {}]

\* a send that makes room by evicting the oldest buffered sample
TrySendEvict(p, wr) ==
    LET k == p.k + 1
        s == [id |-> <<wr[1], wr[2], wr[3], k>>, m |-> p.sends[k].m]
    IN IF Len(ch) < ChanCap
       THEN [ch |-> Append(ch, s), pass |-> [p EXCEPT !.k = k]]
       ELSE [ch |-> Append(Tail(ch), s), pass |-> [p EXCEPT !.k = k]]

\* a send into a buffer that grows without limit
TrySendUnbounded(p, wr) ==
    LET k == p.k + 1
        s == [id |-> <<wr[1], wr[2], wr[3], k>>, m |-> p.sends[k].m]
    IN [ch |-> Append(ch, s), pass |-> [p EXCEPT !.k = k]]

\* select { case m.ch <- metric: default: } for the next sample of pass p by
\* writer wr: the sample is buffered when there is room and dropped otherwise
TrySend(p, wr) ==
    LET k == p.k + 1
        s == [id |-> <<wr[1], wr[2], wr[3], k>>, m |-> p.sends[k].m]
    IN IF Len(ch) < ChanCap
       THEN [ch |-> Append(ch, s), pass |-> [p EXCEPT !.k = k]]
       ELSE [ch |-> ch, pass |-> [p EXCEPT !.k = k, !.dropped = @ \cup {k}]]

\* a receive that leaves the sample in the buffer
ReceivePeek(buf) == [cc |-> Head(buf), ch |-> buf]

\* case cc, ok := <-m.ch: the sample received and the channel left behind
Receive(buf) == [cc |-> Head(buf), ch |-> Tail(buf)]

\* the passes begun by backgroundCollect goroutines
RECURSIVE SumN(_, _)
SumN(tasks, i) == IF i > Len(tasks) THEN 0 ELSE tasks[i].n + SumN(tasks, i + 1)

bgPasses == SumN(bg, 1)

Active == {c \in 1..Len(calls) : calls[c].pc # "done"}

\* a Collect call begins; overlap records that it runs while another call of
\* the same collector is in progress
Enter(call) ==
    Append([c \in 1..Len(calls) |->
               IF c \in Active THEN [calls[c] EXCEPT !.overlap = TRUE] ELSE calls[c]],
           [call EXCEPT !.overlap = (Active # {})])

Init0 == /\ background \in BOOLEAN
         /\ ch = <<>>
         /\ closed = FALSE
         /\ calls = <<>>
         /\ bg = <<>>
         /\ passes = 0
         /\ exp = NoExp
         /\ parse = NoParse
         /\ enc = NoEnc

Init == Init0 /\ scenario = "small"

InitAgg == Init0 /\ scenario = "agg"

InitFull == Init0 /\ scenario = "full"

InitLoop == Init0 /\ scenario = "loop"

InitSerial == Init0 /\ scenario = "serial"

\* Collect with m.background false: run collect on the calling thread
CollectForeground ==
    /\ ~background
    /\ Len(calls) < CallLimit
    /\ Cardinality(Active) < ConcurrentLimit
    /\ passes' = passes + 1
    /\ \E w \in Worlds : \E r \in collect(w) :
          calls' = Enter([pc |-> IF r.sends = <<>> THEN "drain" ELSE "collect",
                          pass |-> NewPass(w, r), out |-> <<>>, cc |-> <<>>,
                          overlap |-> FALSE])
    /\ UNCHANGED <<background, ch, closed, bg, scenario, exp, parse, enc>>

\* a Collect that in background mode also runs collect on the calling thread
CollectBackgroundInline ==
    /\ background
    /\ Len(calls) < CallLimit
    /\ Cardinality(Active) < ConcurrentLimit
    /\ bg' = Append(bg, [pc |-> "ready", pass |-> NoPass, n |-> 0, by |-> Len(calls) + 1])
    /\ passes' = passes + 1
    /\ \E w \in Worlds : \E r \in collect(w) :
          calls' = Enter([pc |-> IF r.sends = <<>> THEN "drain" ELSE "collect",
                          pass |-> NewPass(w, r), out |-> <<>>, cc |-> <<>>,
                          overlap |-> FALSE])
    /\ UNCHANGED <<background, ch, closed, scenario, exp, parse, enc>>

\* Collect with m.background true: go m.backgroundCollect()
CollectBackground ==
    /\ background
    /\ Len(calls) < CallLimit
    /\ Cardinality(Active) < ConcurrentLimit
    /\ bg' = Append(bg, [pc |-> "ready", pass |-> NoPass, n |-> 0, by |-> Len(calls) + 1])
    /\ calls' = Enter([pc |-> "drain", pass |-> NoPass, out |-> <<>>, cc |-> <<>>,
                          overlap |-> FALSE])
    /\ UNCHANGED <<background, ch, closed, passes, scenario, exp, parse, enc>>

\* collect called from Collect offers its next sample
CollectSend(c) ==
    /\ calls[c].pc = "collect"
    /\ ~closed
    /\ LET r == TrySend(calls[c].pass, <<"call", c, 1>>)
       IN /\ ch' = r.ch
          /\ calls' = [calls EXCEPT ![c].pass = r.pass,
                                    ![c].pc = IF r.pass.k = Len(r.pass.sends)
                                              THEN "drain" ELSE "collect"]
    /\ UNCHANGED <<background, closed, bg, passes, scenario, exp, parse, enc>>

\* the drain loop of Collect receives one sample: case cc, ok := <-m.ch
DrainReceive(c) ==
    /\ calls[c].pc = "drain"
    /\ ch # <<>>
    /\ LET r == Receive(ch)
       IN /\ ch' = r.ch
          /\ calls' = [calls EXCEPT ![c].cc = <<r.cc>>, ![c].pc = "forward"]
    /\ UNCHANGED <<background, closed, bg, passes, scenario, exp, parse, enc>>

\* the samples a call has forwarded, after it forwards cc.  Where the
\* background task loops forever a call may forward without end: there the
\* record keeps the last MaxOut samples, the older ones are with the consumer
Forwarded(out, cc) ==
    IF scenario = "loop" /\ Len(out) = MaxOut THEN Append(Tail(out), cc)
    ELSE Append(out, cc)

\* the consumer of the caller's channel takes the sample the call holds:
\* ch <- cc, which waits until then
DrainForward(c) ==
    /\ calls[c].pc = "forward"
    /\ calls' = [calls EXCEPT ![c].out = Forwarded(@, calls[c].cc[1]), ![c].cc = <<>>,
                              ![c].pc = "drain"]
    /\ UNCHANGED <<background, ch, closed, bg, passes, scenario, exp, parse, enc>>

\* a drain loop that returns while the buffer still holds samples
DrainReturnEarly(c) ==
    /\ calls[c].pc = "drain"
    /\ ~closed
    /\ calls' = [calls EXCEPT ![c].pc = "done"]
    /\ UNCHANGED <<background, ch, closed, bg, passes, scenario, exp, parse, enc>>

\* the drain loop of Collect finds nothing to receive and returns
DrainReturn(c) ==
    /\ calls[c].pc = "drain"
    /\ ch = <<>>
    /\ ~closed
    /\ calls' = [calls EXCEPT ![c].pc = "done"]
    /\ UNCHANGED <<background, ch, closed, bg, passes, scenario, exp, parse, enc>>

\* backgroundCollect calls collect.  The loop has no exit: where passes are
\* numbered their number is capped by PassLimit to keep the states finite, and
\* in the "loop" scenario, where termination and progress are checked, the
\* task begins passes without end
BgCollect(i) ==
    /\ bg[i].pc = "ready"
    /\ scenario = "loop" \/ bgPasses < PassLimit
    /\ passes' = IF scenario = "loop" THEN passes ELSE passes + 1
    /\ \E w \in Worlds : \E r \in collect(w) :
          bg' = [bg EXCEPT ![i].pc = "collect", ![i].pass = NewPass(w, r),
                           ![i].n = IF scenario = "loop" THEN 1 ELSE @ + 1]
    /\ UNCHANGED <<background, ch, closed, calls, scenario, exp, parse, enc>>

\* collect called from backgroundCollect offers its next sample
BgSend(i) ==
    /\ bg[i].pc = "collect"
    /\ bg[i].pass.k < Len(bg[i].pass.sends)
    /\ ~closed
    /\ LET r == TrySend(bg[i].pass, <<"bg", i, bg[i].n>>)
       IN /\ ch' = r.ch
          /\ bg' = [bg EXCEPT ![i].pass = r.pass]
    /\ UNCHANGED <<background, closed, calls, passes, scenario, exp, parse, enc>>

\* a task that returns after a pass that ended with an error, so that the
\* deferred close(m.ch) runs
BgSleepReturn(i) ==
    /\ bg[i].pc = "collect"
    /\ bg[i].pass.k = Len(bg[i].pass.sends)
    /\ bg' = [bg EXCEPT ![i].pc = IF bg[i].pass.err = "" THEN "ready" ELSE "returned"]
    /\ closed' = (closed \/ bg[i].pass.err # "")
    /\ UNCHANGED <<background, ch, calls, passes, scenario, exp, parse, enc>>

\* collect has returned: time.Sleep(mdsBackgroundCollectInterval), then loop
BgSleep(i) ==
    /\ bg[i].pc = "collect"
    /\ bg[i].pass.k = Len(bg[i].pass.sends)
    /\ bg' = [bg EXCEPT ![i].pc = "ready"]
    /\ UNCHANGED <<background, ch, closed, calls, passes, scenario, exp, parse, enc>>

Next == \/ CollectForeground
        \/ CollectBackground
        \/ \E c \in 1..Len(calls) : CollectSend(c)
        \/ \E c \in 1..Len(calls) : DrainReceive(c)
        \/ \E c \in 1..Len(calls) : DrainForward(c)
        \/ \E c \in 1..Len(calls) : DrainReturn(c)
        \/ \E i \in 1..Len(bg) : BgCollect(i)
        \/ \E i \in 1..Len(bg) : BgSend(i)
        \/ \E i \in 1..Len(bg) : BgSleep(i)

Spec == Init /\ [][Next]_vars

SpecAgg == InitAgg /\ [][Next]_vars

SpecFull == InitFull /\ [][Next]_vars

\* every backgroundCollect goroutine is scheduled again and again: it is never
\* blocked, its sends do not wait and its sleep ends
FairBackground ==
    \A i \in 1..MaxCalls :
        /\ WF_vars(i <= Len(bg) /\ BgCollect(i))
        /\ WF_vars(i <= Len(bg) /\ BgSend(i))
        /\ WF_vars(i <= Len(bg) /\ BgSleep(i))

SpecLoop == InitLoop /\ [][Next]_vars /\ FairBackground

\* every Collect call is scheduled again and again: its sends do not wait and
\* the consumer of its output accepts the samples it forwards
FairCalls ==
    \A c \in 1..MaxCalls :
        /\ WF_vars(c <= Len(calls) /\ CollectSend(c))
        /\ WF_vars(c <= Len(calls) /\ DrainReceive(c))
        /\ WF_vars(c <= Len(calls) /\ DrainForward(c))
        /\ WF_vars(c <= Len(calls) /\ DrainReturn(c))

SpecSerial == InitSerial /\ [][Next]_vars

\* one background task that loops forever and one Collect call, all of whose
\* steps are scheduled again and again
SpecLoopFair == InitLoop /\ [][Next]_vars /\ FairBackground /\ FairCalls

(***************************************************************************)
(* A scrape of the exporter over the one-shot collectors                   *)
(***************************************************************************)

InitExp(name, registry, inputs) ==
    /\ background = FALSE /\ ch = <<>> /\ closed = FALSE /\ calls = <<>>
    /\ bg = <<>> /\ passes = 0 /\ scenario = name /\ parse = NoParse /\ enc = NoEnc
    /\ \E in \in inputs : exp = [NoExp EXCEPT !.pc = "idle", !.registry = registry, !.in = in]

InitRgw == InitExp("rgw", {"rgw"}, RgwInputs)

InitExporter == InitExp("exporter", {"rgw", "poolUsage"}, ExporterInputs)

MDSUnchanged == UNCHANGED <<background, ch, closed, calls, bg, passes, scenario, parse, enc>>

\* a scrape request arrives
ScrapeBegin ==
    /\ exp.pc = "idle"
    /\ exp' = [exp EXCEPT !.pc = "collect"]
    /\ MDSUnchanged

\* the exporter invokes the registered collector n, in no fixed order
CollectorRun(n) ==
    /\ exp.pc = "collect"
    /\ n \in exp.registry \ exp.ran
    /\ exp' = merge(exp, n, collectorOf(n, exp.in))
    /\ MDSUnchanged

\* every collector has run: the response is written
ScrapeRespond ==
    /\ exp.pc = "collect"
    /\ exp.ran = exp.registry
    /\ exp' = [exp EXCEPT !.pc = "done"]
    /\ MDSUnchanged

NextExp == \/ ScrapeBegin
           \/ \E n \in {"rgw", "poolUsage"} : CollectorRun(n)
           \/ ScrapeRespond

SpecRgw == InitRgw /\ [][NextExp]_vars

SpecExporter == InitExporter /\ [][NextExp]_vars

(***************************************************************************)
(* One call of extractOpFromDescription                                    *)
(***************************************************************************)

InitParse ==
    /\ background = FALSE /\ ch = <<>> /\ closed = FALSE /\ calls = <<>>
    /\ bg = <<>> /\ passes = 0 /\ scenario = "parse" /\ exp = NoExp /\ enc = NoEnc
    /\ \/ \E p \in DescParts :
             parse = [NoParse EXCEPT !.pc = "form", !.parts = p, !.desc = DescOfParts(p)]
       \/ \E d \in OtherDescs : parse = [NoParse EXCEPT !.pc = "other", !.desc = d]

\* extractOpFromDescription(desc) returns
Extract ==
    /\ parse.pc \in {"form", "other"}
    /\ parse' = [parse EXCEPT !.pc = IF @ = "form" THEN "form done" ELSE "other done",
                              !.result = extractOpFromDescription(parse.desc)]
    /\ UNCHANGED <<background, ch, closed, calls, bg, passes, scenario, exp, enc>>

SpecParse == InitParse /\ [][Extract]_vars

(***************************************************************************)
(* Hash of two label tuples and UnHash of the first                        *)
(***************************************************************************)

InitEnc ==
    /\ background = FALSE /\ ch = <<>> /\ closed = FALSE /\ calls = <<>>
    /\ bg = <<>> /\ passes = 0 /\ scenario = "enc" /\ exp = NoExp /\ parse = NoParse
    /\ \E a, b \in LabelTuples : enc = [NoEnc EXCEPT !.pc = "ready", !.a = a, !.b = b]

\* a.Hash(), b.Hash(), and var ml mdsLabels; ml.UnHash(a.Hash())
Encode ==
    /\ enc.pc = "ready"
    /\ enc' = [enc EXCEPT !.pc = "done", !.ha = Hash(enc.a), !.hb = Hash(enc.b),
                          !.back = UnHash(ZeroLabels, Hash(enc.a))]
    /\ UNCHANGED <<background, ch, closed, calls, bg, passes, scenario, exp, parse>>

SpecEnc == InitEnc /\ [][Encode]_vars

TypeOK == /\ background \in BOOLEAN
          /\ closed \in BOOLEAN
          /\ passes \in 0..(PassLimit + CallLimit)
          /\ Len(calls) <= CallLimit
          /\ Len(bg) <= Len(calls)

(***************************************************************************)
(* Properties                                                              *)
(***************************************************************************)

\* the passes begun so far, by Collect calls and by background goroutines
CallPasses == {calls[c].pass : c \in {d \in 1..Len(calls) : calls[d].pass.begun}}

BgPasses == {bg[i].pass : i \in {j \in 1..Len(bg) : bg[j].pass.begun}}

Passes == CallPasses \cup BgPasses

Finished(p) == p.begun /\ p.k = Len(p.sends)

\* pass p (before the step) offered its next sample in the step to pass q
Offered(p, q) == p.begun /\ q.w = p.w /\ q.sends = p.sends /\ q.k = p.k + 1

\* the offer of a sample to a full buffer dropped that sample
DroppedNewest(p, q) ==
    Offered(p, q) => /\ ch' = ch
                     /\ q.dropped = p.dropped \cup {q.k}

\* a writer with a sample to offer can take its step
WritersNeverBlock ==
    /\ \A c \in 1..Len(calls) : calls[c].pc = "collect" => ENABLED CollectSend(c)
    /\ \A i \in 1..Len(bg) :
          (bg[i].pc = "collect" /\ bg[i].pass.k < Len(bg[i].pass.sends)) => ENABLED BgSend(i)

FullBufferStep ==
    Len(ch) = ChanCap =>
        /\ \A c \in 1..Len(calls) : DroppedNewest(calls[c].pass, calls'[c].pass)
        /\ \A i \in 1..Len(bg) : DroppedNewest(bg[i].pass, bg'[i].pass)

\* C1: a sample offered while the buffer holds ChanCap samples is dropped,
\* the writer goes on, and the buffered samples keep content and order
C1_DropNewestWhenFull == [](WritersNeverBlock) /\ [][FullBufferStep]_vars

\* a background pass has dropped a blocked-ops sample at a full buffer
C1_Witness ==
    \E i \in 1..Len(bg) : \E k \in bg[i].pass.dropped :
        /\ bg[i].pass.sends[k].m.desc = "mds_blocked_ops"
        /\ Len(ch) = ChanCap

\* C2: the buffer never holds more than ChanCap samples
C2_BufferBounded == Len(ch) <= ChanCap

\* the buffer is full while a Collect call is draining
C2_Witness == /\ Len(ch) = ChanCap
              /\ \E c \in 1..Len(calls) : calls[c].pc = "drain"

\* the places of the delivered samples: call c, position k of its output
Delivery == UNION {{<<c, k>> : k \in 1..Len(calls[c].out)} : c \in 1..Len(calls)}

\* the Collect calls that have received a sample and not yet forwarded it
Holding == {c \in 1..Len(calls) : calls[c].cc # <<>>}

\* C3: no sample is in the output of two Collect calls or twice in one
\* output, a delivered sample is no longer in the buffer, and a sample a call
\* has received and not yet forwarded is in no output, not in the buffer and
\* held by no other call
C3_DeliveredOnce ==
    /\ \A p1, p2 \in Delivery :
          calls[p1[1]].out[p1[2]].id = calls[p2[1]].out[p2[2]].id => p1 = p2
    /\ \A p1 \in Delivery : \A k \in 1..Len(ch) : ch[k].id # calls[p1[1]].out[p1[2]].id
    /\ \A c \in Holding :
          /\ \A p1 \in Delivery : calls[p1[1]].out[p1[2]].id # calls[c].cc[1].id
          /\ \A k \in 1..Len(ch) : ch[k].id # calls[c].cc[1].id
          /\ \A d \in Holding : calls[d].cc[1].id = calls[c].cc[1].id => d = c

\* two Collect calls are draining at the same time and each has forwarded a
\* sample; one of them holds a further sample the consumer has not yet taken
C3_Witness ==
    \E c1, c2 \in 1..Len(calls) :
        /\ c1 # c2
        /\ calls[c1].pc = "forward" /\ calls[c1].out # <<>>
        /\ calls[c2].pc = "drain" /\ calls[c2].out # <<>>

\* C4: at most one backgroundCollect goroutine exists, and every buffered or
\* delivered sample was written by it
C4_OneBackgroundTask ==
    background =>
        /\ Len(bg) <= 1
        /\ \A k \in 1..Len(ch) : ch[k].id[1] = "bg" /\ ch[k].id[2] = 1
        /\ \A pl \in Delivery : calls[pl[1]].out[pl[2]].id[2] = 1

\* a Collect call in background mode only took the head of the buffer,
\* forwarded the sample it had taken, or returned from an empty buffer
DrainOnlyStep ==
    background =>
        \A c \in 1..Len(calls) :
            /\ (calls'[c].cc # calls[c].cc /\ calls'[c].cc # <<>>) =>
                  /\ ch # <<>>
                  /\ calls[c].cc = <<>>
                  /\ calls'[c].cc = <<Head(ch)>>
                  /\ ch' = Tail(ch)
                  /\ calls'[c].out = calls[c].out
            /\ calls'[c].out # calls[c].out =>
                  /\ calls[c].cc # <<>>
                  /\ calls'[c].out = Append(calls[c].out, calls[c].cc[1])
                  /\ calls'[c].cc = <<>>
                  /\ ch' = ch
            /\ (calls[c].pc = "drain" /\ calls'[c].pc = "done") =>
                  /\ ch = <<>>
                  /\ calls[c].cc = <<>>
                  /\ calls'[c].out = calls[c].out

\* in background mode no Collect call has issued a query, and a call that
\* finds the buffer empty can return at once
NoQueryOnScrape ==
    background =>
        \A c \in 1..Len(calls) :
            /\ ~calls[c].pass.begun
            /\ calls[c].pass.queries = <<>>
            /\ (calls[c].pc = "drain" /\ ch = <<>>) => ENABLED DrainReturn(c)

\* C5: in background mode Collect issues no cluster query, forwards exactly
\* what it removes from the buffer, and returns from an empty buffer without
\* waiting for a pass
C5_BackgroundCollectOnlyDrains == [](NoQueryOnScrape) /\ [][DrainOnlyStep]_vars

\* a Collect call returned with no sample while a background pass was still
\* offering its samples
C5_Witness ==
    /\ background
    /\ \E c \in 1..Len(calls) : calls[c].pc = "done" /\ calls[c].out = <<>>
    /\ \E i \in 1..Len(bg) : bg[i].pc = "collect" /\ bg[i].pass.k < Len(bg[i].pass.sends)

(***************************************************************************)
(* Properties of the slow-operation aggregation                            *)
(***************************************************************************)

BlockedOps == "mds_blocked_ops"

\* the blocked-ops queries of pass p that returned a decodable dump; each
\* names its detail message (msg) and the daemon addressed (mds)
Dumped(p) ==
    {p.queries[n] : n \in {x \in 1..Len(p.queries) :
                              /\ p.queries[x].q = "dump_blocked_ops"
                              /\ runBlockedOpsCheckFn(p.w, p.queries[x].mds).res = "ok"}}

DumpOf(p, q) == runBlockedOpsCheckFn(p.w, q.mds).Ops

\* the record passes description parsing
PassesParsing(op) ==
    op.OpType # ClientRequest \/ FindStringSubmatch(op.Description) # <<>>

\* the label tuple of a record whose description parses to opDesc
LabelsWith(p, q, op, opDesc) ==
    <<runMDSStatusFn(p.w, q.mds).FsName, q.mds, runMDSStatusFn(p.w, q.mds).State,
      op.OpType, opDesc.fsOpType, op.FlagPoint, opDesc.inode>>

\* the label tuple of a record of the dump read for query q; the records of
\* other types leave the operation and the inode empty
RecordLabels(p, q, op) ==
    LabelsWith(p, q, op, IF op.OpType = ClientRequest
                         THEN extractOpFromDescription(op.Description) ELSE NoOpDesc)

\* the records of q's dump that pass parsing and have the label tuple T
Counted(p, q, T) ==
    {i \in 1..Len(DumpOf(p, q)) :
        PassesParsing(DumpOf(p, q)[i]) /\ RecordLabels(p, q, DumpOf(p, q)[i]) = T}

\* the blocked-ops samples pass p emitted for detail message j
SlowSends(p, j) ==
    {k \in 1..Len(p.sends) : p.sends[k].from = j /\ p.sends[k].m.desc = BlockedOps}

SlowSendsOf(p, j, T) == {k \in SlowSends(p, j) : p.sends[k].m.labels = T}

\* the label tuple T has exactly one sample among those of q's dump, a
\* counter valued with the number of records counted for T
OneSampleFor(p, q, T) ==
    /\ Cardinality(SlowSendsOf(p, q.msg, T)) = 1
    /\ \A k \in SlowSendsOf(p, q.msg, T) :
          /\ p.sends[k].m.kind = "counter"
          /\ p.sends[k].m.value = Cardinality(Counted(p, q, T))

\* C6: for one dump, the records that pass parsing and share a label tuple
\* yield exactly one counter sample for that tuple, valued with their number
C6_OneSamplePerTupleOfDump ==
    \A p \in Passes : \A q \in Dumped(p) : \A i \in 1..Len(DumpOf(p, q)) :
        PassesParsing(DumpOf(p, q)[i]) =>
            OneSampleFor(p, q, RecordLabels(p, q, DumpOf(p, q)[i]))

\* a scrape received a blocked-ops sample that counts several records
C6_Witness ==
    \E pl \in Delivery :
        /\ calls[pl[1]].out[pl[2]].m.desc = BlockedOps
        /\ calls[pl[1]].out[pl[2]].m.value >= 2

\* the blocked-ops samples of pass p, of all its detail messages
AllSlowSends(p) == {k \in 1..Len(p.sends) : p.sends[k].m.desc = BlockedOps}

\* the records of all dumps of pass p that pass parsing and have the tuple T
CountedInPass(p, T) == {<<q, i>> \in UNION {{<<d, x>> : x \in Counted(p, d, T)} : d \in Dumped(p)} : TRUE}

\* C7: within one pass every label tuple is emitted once, with the number of
\* records of the whole pass that have it
C7_OneSamplePerTupleOfPass ==
    \A p \in Passes : \A k \in AllSlowSends(p) :
        /\ \A k2 \in AllSlowSends(p) : p.sends[k2].m.labels = p.sends[k].m.labels => k2 = k
        /\ p.sends[k].m.value = Cardinality(CountedInPass(p, p.sends[k].m.labels))

\* the health payload of pass p was decoded and lacks the slow-request check
LacksCheck(p) ==
    /\ runMDSStatFn(p.w).res = "ok"
    /\ runCephHealthDetailFn(p.w).res = "ok"
    /\ SlowRequest \notin DOMAIN runCephHealthDetailFn(p.w).Checks

\* C8: a pass whose health payload lacks the slow-request check emits no
\* blocked-ops sample, issues no per-daemon query and reports no error
C8_NoCheckNoSlowOps ==
    \A p \in Passes :
        LacksCheck(p) =>
            /\ AllSlowSends(p) = {}
            /\ \A n \in 1..Len(p.queries) : p.queries[n].q \in {"mds stat", "health detail"}
            /\ p.logs = <<>>
            /\ p.err = ""

\* a pass has finished over a payload that has a check, but not the
\* slow-request check
C8_Witness ==
    \E p \in Passes :
        /\ Finished(p)
        /\ LacksCheck(p)
        /\ DOMAIN runCephHealthDetailFn(p.w).Checks # {}

RECURSIVE SumValues(_, _)
SumValues(p, ks) ==
    IF ks = {} THEN 0
    ELSE LET k == CHOOSE x \in ks : TRUE
         IN p.sends[k].m.value + SumValues(p, ks \ {k})

\* the samples the aggregator yields for the records ops of q's daemon
SamplesFor(p, q, ops) ==
    {MDSBlockedOpsMetric(UnHash(ZeroLabels, h),
                         opsLoop(ops, 1, runMDSStatusFn(p.w, q.mds), q.mds, EmptyAcc).metricMap[h]) :
        h \in DOMAIN opsLoop(ops, 1, runMDSStatusFn(p.w, q.mds), q.mds, EmptyAcc).metricMap}

ParseFailures(p, j) ==
    {n \in 1..Len(p.logs) : /\ p.logs[n].msg = j
                            /\ p.logs[n].text = "failed parsing blocked ops description"}

\* C9: a client_request record whose description does not match is skipped
\* alone: it is counted nowhere, and the samples of its dump are those of
\* the dump without it
C9_MalformedRecordSkipped ==
    \A p \in Passes : \A q \in Dumped(p) :
        /\ {p.sends[k].m : k \in SlowSends(p, q.msg)}
              = SamplesFor(p, q, SelectSeq(DumpOf(p, q), PassesParsing))
        /\ SumValues(p, SlowSends(p, q.msg)) = Len(SelectSeq(DumpOf(p, q), PassesParsing))
        /\ Cardinality(ParseFailures(p, q.msg))
              = Len(DumpOf(p, q)) - Len(SelectSeq(DumpOf(p, q), PassesParsing))

\* a pass has finished over a dump in which a malformed client request is
\* followed by a record that passes parsing
C9_Witness ==
    \E p \in Passes : \E q \in Dumped(p) :
        /\ Finished(p)
        /\ SlowSends(p, q.msg) # {}
        /\ \E i, i2 \in 1..Len(DumpOf(p, q)) :
              /\ i < i2
              /\ ~PassesParsing(DumpOf(p, q)[i])
              /\ PassesParsing(DumpOf(p, q)[i2])

\* the detail messages of the slow-request check read by pass p
DetailOf(p) ==
    IF /\ runMDSStatFn(p.w).res = "ok"
       /\ runCephHealthDetailFn(p.w).res = "ok"
       /\ SlowRequest \in DOMAIN runCephHealthDetailFn(p.w).Checks
    THEN runCephHealthDetailFn(p.w).Checks[SlowRequest].Detail
    ELSE <<>>

QueriesFor(p, j) == {n \in 1..Len(p.queries) : p.queries[n].msg = j}

LogsFor(p, j) == {n \in 1..Len(p.logs) : p.logs[n].msg = j}

\* the loop over the detail messages got to message j
Reached(p, j) == QueriesFor(p, j) # {} \/ LogsFor(p, j) # {}

QueryFailures == {"failed getting status from mds", "failed unmarshalling mds status",
                  "failed getting blocked ops from mds",
                  "failed unmarshalling mds blocked ops"}

\* a per-daemon query of message j failed
FailedAt(p, j) == \E n \in LogsFor(p, j) : p.logs[n].text \in QueryFailures

Malformed(msg) == Len(Split(msg, "(")) # 2

\* C10: a detail message that does not split into two parts causes no query
\* and no sample, and the loop goes on to the messages after it (it ends
\* early only at a later message whose own query failed)
C10_MalformedMessageSkipped ==
    \A p \in Passes : \A j \in 1..Len(DetailOf(p)) :
        (Malformed(DetailOf(p)[j]) /\ Reached(p, j)) =>
            /\ QueriesFor(p, j) = {}
            /\ SlowSends(p, j) = {}
            /\ j < Len(DetailOf(p)) => Reached(p, j + 1)
            /\ \A j2 \in (j + 1)..Len(DetailOf(p)) :
                  Reached(p, j2) \/ \E m \in (j + 1)..(j2 - 1) : FailedAt(p, m)

\* a pass has finished in which a malformed message was skipped and the
\* message after it yielded samples
C10_Witness ==
    \E p \in Passes : \E j \in 1..Len(DetailOf(p)) :
        /\ Finished(p)
        /\ Malformed(DetailOf(p)[j])
        /\ Reached(p, j)
        /\ j < Len(DetailOf(p))
        /\ SlowSends(p, j + 1) # {}

\* the text of a detail message before its "(" and the text between the "("
\* and the ")" that follows it
BeforeParen(msg) == Split(msg, "(")[1]

AfterParen(msg) == Split(Split(msg, "(")[2], ")")[1]

\* the daemon of message j of pass p was addressed and labelled as name
NamedAs(p, j, name) ==
    /\ \A n \in QueriesFor(p, j) : p.queries[n].mds = name
    /\ \A k \in SlowSends(p, j) : p.sends[k].m.labels[2] = name

\* C11 as stated: the daemon of a message <text>(<daemon-name>)... is
\* queried and labelled with the part that follows the "("
C11_NameAfterParen ==
    \A p \in Passes : \A j \in 1..Len(DetailOf(p)) :
        (~Malformed(DetailOf(p)[j]) /\ Reached(p, j)) =>
            NamedAs(p, j, AfterParen(DetailOf(p)[j]))

\* C11 amended: the status query, the blocked-ops query and the daemon-name
\* label of the samples of a message with exactly one "(" all use the text
\* that precedes the "("
C11_NameBeforeParen ==
    \A p \in Passes : \A j \in 1..Len(DetailOf(p)) :
        (~Malformed(DetailOf(p)[j]) /\ Reached(p, j)) =>
            /\ NamedAs(p, j, BeforeParen(DetailOf(p)[j]))
            /\ \E n \in QueriesFor(p, j) : p.queries[n].q = "status"

\* a pass has finished that queried status and blocked ops of the daemon of
\* a message and emitted a sample for it
C11_Witness ==
    \E p \in Passes : \E j \in 1..Len(DetailOf(p)) :
        /\ Finished(p)
        /\ ~Malformed(DetailOf(p)[j])
        /\ BeforeParen(DetailOf(p)[j]) # AfterParen(DetailOf(p)[j])
        /\ \E n \in QueriesFor(p, j) : p.queries[n].q = "dump_blocked_ops"
        /\ SlowSends(p, j) # {}

(***************************************************************************)
(* Failures of a pass                                                      *)
(***************************************************************************)

HealthFailures == {"failed getting health detail", "failed unmarshalling health detail"}

\* an external query or a JSON decode failed during pass p
FailedPass(p) ==
    /\ p.begun
    /\ \/ p.err # ""
       \/ \E n \in 1..Len(p.logs) : p.logs[n].text \in QueryFailures \cup HealthFailures

\* the samples delivered to scrapes that were written by writer wr
DeliveredFrom(wr) ==
    {pl \in Delivery : /\ calls[pl[1]].out[pl[2]].id[1] = wr[1]
                       /\ calls[pl[1]].out[pl[2]].id[2] = wr[2]
                       /\ calls[pl[1]].out[pl[2]].id[3] = wr[3]}

\* C12: no sample written during a pass in which a query or a decode failed
\* is delivered to a scrape
C12_FailedPassDeliversNothing ==
    /\ \A c \in 1..Len(calls) :
          FailedPass(calls[c].pass) => DeliveredFrom(<<"call", c, 1>>) = {}
    /\ \A i \in 1..Len(bg) :
          FailedPass(bg[i].pass) => DeliveredFrom(<<"bg", i, bg[i].n>>) = {}

(***************************************************************************)
(* Properties of a scrape over the one-shot collectors                     *)
(***************************************************************************)

GCDescs == {"rgw_gc_active_tasks", "rgw_gc_active_objects",
            "rgw_gc_pending_tasks", "rgw_gc_pending_objects"}
ReshardDescs == {"rgw_active_reshards", "rgw_bucket_reshard"}
PoolDescs == {PoolMetricName(f) : f \in PoolFields}

\* the metric families, each with the answer it is computed from and the
\* collector it belongs to
Families == {[answer |-> "gc", descs |-> GCDescs, collector |-> "rgw"],
             [answer |-> "reshard", descs |-> ReshardDescs, collector |-> "rgw"],
             [answer |-> "pools", descs |-> PoolDescs, collector |-> "poolUsage"]}

\* the samples of a response body that belong to the descriptors ds
SamplesOf(body, ds) == {m \in body : m.desc \in ds}

DescsOf(n) == UNION {fam.descs : fam \in {g \in Families : g.collector = n}}

\* the payloads in, with every answer to a collector other than n succeeding
OthersSucceed(in, n) ==
    IF n = "rgw" THEN [in EXCEPT !.pools = Answer("pools", <<>>)]
    ELSE [in EXCEPT !.gc = Answer("tasks", <<>>), !.reshard = Answer("entries", <<>>)]

ScrapeDone == exp.pc = "done"

\* C13: when a collector's query fails or its payload cannot be decoded, the
\* scrape still completes with status 200, the affected metric family has no
\* sample in the response, and the samples of every registered collector are
\* those it produces when the other collectors' queries succeed.
C13_FailureIsolated ==
    ScrapeDone =>
        /\ exp.status = 200
        /\ \A fam \in Families :
              (fam.collector \in exp.registry /\ exp.in[fam.answer].res # "ok")
                  => SamplesOf(exp.body, fam.descs) = {}
        /\ \A n \in exp.registry :
              SamplesOf(exp.body, DescsOf(n)) = collectorOf(n, OthersSucceed(exp.in, n)).samples

\* a scrape where the GC query failed and the pools were decoded
C13_Witness ==
    /\ ScrapeDone
    /\ exp.in.gc.res = "err"
    /\ exp.in.pools.res = "ok"
    /\ SamplesOf(exp.body, PoolDescs) # {}
    /\ SamplesOf(exp.body, ReshardDescs) # {}
    /\ "rgw gc" \in exp.logs

\* the value of the one sample of descriptor d in the response
ValueOf(d) == (CHOOSE m \in SamplesOf(exp.body, {d}) : TRUE).value

OneSampleEach(ds) == \A d \in ds : Cardinality(SamplesOf(exp.body, {d})) = 1

RECURSIVE ObjectsOf(_, _)
ObjectsOf(tasks, I) ==
    IF I = {} THEN 0
    ELSE LET i == CHOOSE k \in I : TRUE
         IN Len(tasks[i].objs) + ObjectsOf(tasks, I \ {i})

GCDecoded == ScrapeDone /\ "rgw" \in exp.registry /\ exp.in.gc.res = "ok"

\* the four GC gauges count the entries of ActiveSet as active and the
\* other entries of the task list as pending
GCCounts(ActiveSet) ==
    LET tasks == exp.in.gc.tasks
        PendingSet == (1..Len(tasks)) \ ActiveSet
    IN /\ OneSampleEach(GCDescs)
       /\ ValueOf("rgw_gc_active_tasks") = Cardinality(ActiveSet)
       /\ ValueOf("rgw_gc_pending_tasks") = Cardinality(PendingSet)
       /\ ValueOf("rgw_gc_active_objects") = ObjectsOf(tasks, ActiveSet)
       /\ ValueOf("rgw_gc_pending_objects") = ObjectsOf(tasks, PendingSet)
       /\ ValueOf("rgw_gc_active_tasks") + ValueOf("rgw_gc_pending_tasks") = Len(tasks)

\* C15 as stated: the active entries of a GC task list are those whose
\* timestamp is not after the current time, the pending ones the remainder;
\* the four gauges report the tasks and the objects of each group.
C15_ActiveNotAfterNow ==
    GCDecoded =>
        GCCounts({i \in 1..Len(exp.in.gc.tasks) : ~(exp.in.gc.tasks[i].time > exp.in.now)})

\* C15 amended: the active entries are those whose timestamp is before the
\* current time; an entry stamped with the current time is pending.
C15_ActiveBeforeNow ==
    GCDecoded =>
        GCCounts({i \in 1..Len(exp.in.gc.tasks) : exp.in.gc.tasks[i].time < exp.in.now})

\* a task list with a past entry and an entry stamped now, both with objects
C15_Witness ==
    /\ GCDecoded
    /\ \E i, j \in 1..Len(exp.in.gc.tasks) :
          /\ exp.in.gc.tasks[i].time < exp.in.now /\ exp.in.gc.tasks[i].objs # <<>>
          /\ exp.in.gc.tasks[j].time = exp.in.now /\ exp.in.gc.tasks[j].objs # <<>>
    /\ ValueOf("rgw_gc_active_tasks") = 1
    /\ ValueOf("rgw_gc_pending_tasks") = 1

\* C16: when the GC task-list query returns an error or an undecodable
\* payload, the response has none of the four rgw_gc samples; when it
\* returns a valid empty list, the response has all four with value 0.
C16_GCFailureEmitsNothing ==
    (ScrapeDone /\ "rgw" \in exp.registry) =>
        /\ exp.in.gc.res # "ok" => SamplesOf(exp.body, GCDescs) = {}
        /\ (exp.in.gc.res = "ok" /\ exp.in.gc.tasks = <<>>) =>
              /\ OneSampleEach(GCDescs)
              /\ \A d \in GCDescs : ValueOf(d) = 0

\* a scrape whose GC payload could not be decoded, the reshard list could
C16_Witness ==
    /\ ScrapeDone
    /\ "rgw" \in exp.registry
    /\ exp.in.gc.res = "bad"
    /\ exp.in.reshard.res = "ok"
    /\ "rgw gc" \in exp.logs

Range(f) == {f[x] : x \in DOMAIN f}

\* the samples of descriptor d labelled with the value l
Labelled(d, l) == {m \in SamplesOf(exp.body, {d}) : l \in Range(m.labels)}

PoolsDecoded == ScrapeDone /\ "poolUsage" \in exp.registry /\ exp.in.pools.res = "ok"

\* C17: for a pool payload that decodes, every pool has one sample of each
\* pool metric labelled with its name; a stat absent from the pool's entry is
\* reported as 0 and a stat that is present keeps its payload value.
C17_MissingStatIsZero ==
    PoolsDecoded =>
        \A i \in 1..Len(exp.in.pools.pools) : \A f \in PoolFields :
            LET pool == exp.in.pools.pools[i]
                ms == Labelled(PoolMetricName(f), pool.name)
            IN /\ Cardinality(ms) = 1
               /\ \A m \in ms :
                     m.value = IF f \in DOMAIN pool.stats THEN pool.stats[f] ELSE 0

\* two pools, one of them with the stat "stored" missing and "objects" present
C17_Witness ==
    /\ PoolsDecoded
    /\ Len(exp.in.pools.pools) = 2
    /\ \E i \in 1..Len(exp.in.pools.pools) :
          LET pool == exp.in.pools.pools[i]
          IN /\ "stored" \notin DOMAIN pool.stats
             /\ "objects" \in DOMAIN pool.stats
             /\ \E m \in Labelled("pool_used_bytes", pool.name) : m.value = 0
             /\ \E m \in Labelled("pool_objects_total", pool.name) : m.value = 5

ReshardDecoded == ScrapeDone /\ "rgw" \in exp.registry /\ exp.in.reshard.res = "ok"

\* C18: for a reshard list that decodes, the active-reshards gauge is the
\* number of entries, every entry's bucket has one bucket-reshard sample of
\* value 1, and there is no other bucket-reshard sample (none for an empty
\* list).
C18_ReshardGaugeAndBuckets ==
    ReshardDecoded =>
        LET entries == exp.in.reshard.entries
            names == {entries[i].bucket_name : i \in 1..Len(entries)}
        IN /\ OneSampleEach({"rgw_active_reshards"})
           /\ ValueOf("rgw_active_reshards") = Len(entries)
           /\ \A b \in names :
                 /\ Cardinality(Labelled("rgw_bucket_reshard", b)) = 1
                 /\ \A m \in Labelled("rgw_bucket_reshard", b) : m.value = 1
           /\ SamplesOf(exp.body, {"rgw_bucket_reshard"})
                 = UNION {Labelled("rgw_bucket_reshard", b) : b \in names}

\* a reshard list with two entries for two buckets
C18_Witness ==
    /\ ReshardDecoded
    /\ Len(exp.in.reshard.entries) = 2
    /\ exp.in.reshard.entries[1].bucket_name # exp.in.reshard.entries[2].bucket_name
    /\ ValueOf("rgw_active_reshards") = 2
    /\ Cardinality(SamplesOf(exp.body, {"rgw_bucket_reshard"})) = 2

(***************************************************************************)
(* The background task as a loop                                           *)
(***************************************************************************)

Started(i) == i <= Len(bg)
InPass(i) == Started(i) /\ bg[i].pc = "collect"
AtLoopTop(i) == Started(i) /\ bg[i].pc = "ready"

\* C14: a background task never terminates and never closes the buffer; after
\* every pass, with or without an error, it comes back to the top of its loop
\* and, scheduled fairly, begins another pass.
C14_BackgroundLoopsForever ==
    /\ [](~closed)
    /\ \A i \in 1..MaxCalls :
          /\ [](Started(i) => (InPass(i) \/ AtLoopTop(i)))
          /\ [](InPass(i) => <>AtLoopTop(i))
          /\ [](Started(i) => <>InPass(i))

\* the task is back at the top of its loop after a pass that returned an
\* error, the buffer still open
C14_Witness ==
    /\ AtLoopTop(1)
    /\ bg[1].pass.begun
    /\ bg[1].pass.err # ""
    /\ ~closed

(***************************************************************************)
(* Properties of extractOpFromDescription                                  *)
(***************************************************************************)

\* C19: for a description client_request(client.<clientid>:<requestid> <verb>
\* ...#<inode>...) extraction returns no error, the verb as the filesystem
\* operation subtype and the identifier after "#" as the inode; for a
\* description that is not of that form it returns an error and no values.
C19_ExtractsVerbAndInode ==
    /\ parse.pc = "form done" =>
          /\ ~parse.result.err
          /\ parse.result.fsOpType = parse.parts.fsoptype
          /\ parse.result.inode = parse.parts.inode
    /\ parse.pc = "other done" => parse.result = NoOpDesc

(***************************************************************************)
(* Delivery of a synchronous pass                                          *)
(***************************************************************************)

\* the positions in its pass of the samples that call c received from itself
OwnDelivered(c) ==
    {calls[pl[1]].out[pl[2]].id[4] : pl \in {d \in DeliveredFrom(<<"call", c, 1>>) : d[1] = c}}

\* C20: in synchronous mode a Collect call that ran alone has, when it
\* returns, delivered every sample its own pass produced, however many.
C20_SyncDeliversEverySample ==
    \A c \in 1..Len(calls) :
        (~background /\ Len(calls) = 1 /\ calls[c].pc = "done")
            => OwnDelivered(c) = 1..Len(calls[c].pass.sends)

(***************************************************************************)
(* Concurrent synchronous Collect calls                                    *)
(***************************************************************************)

\* the writers of the samples that call c has received
WritersOf(c) ==
    {<<calls[c].out[k].id[1], calls[c].out[k].id[2]>> : k \in 1..Len(calls[c].out)}

\* C21: in synchronous mode every sample a Collect call receives was written
\* by its own pass, and a call that has returned has received every sample
\* its own pass buffered, also while another Collect call is in progress.
C21_ConcurrentCallsKeepOwnSamples ==
    ~background =>
        \A c \in 1..Len(calls) :
            /\ WritersOf(c) \subseteq {<<"call", c>>}
            /\ calls[c].pc = "done" =>
                  OwnDelivered(c) = (1..Len(calls[c].pass.sends)) \ calls[c].pass.dropped

\* C21 amended: the same holds of every synchronous Collect call that did
\* not run while another call of the collector was in progress, as the
\* contract of Collect asks of its caller.
C21_SerialCallsKeepOwnSamples ==
    ~background =>
        \A c \in 1..Len(calls) :
            ~calls[c].overlap =>
                /\ WritersOf(c) \subseteq {<<"call", c>>}
                /\ calls[c].pc = "done" =>
                      OwnDelivered(c) = (1..Len(calls[c].pass.sends)) \ calls[c].pass.dropped

\* two synchronous calls ran one after the other and each received a sample
C21_Witness ==
    /\ ~background
    /\ Len(calls) >= 2
    /\ \A c \in 1..2 : /\ calls[c].pc = "done"
                       /\ ~calls[c].overlap
                       /\ calls[c].out # <<>>

\* C22: the output of one Collect call never holds two samples with the same
\* metric name and the same label values.
C22_NoDuplicateSampleInOutput ==
    \A c \in 1..Len(calls) : \A k1, k2 \in 1..Len(calls[c].out) :
        (/\ calls[c].out[k1].m.desc = calls[c].out[k2].m.desc
         /\ calls[c].out[k1].m.labels = calls[c].out[k2].m.labels) => k1 = k2

(***************************************************************************)
(* Describe and the descriptors of emitted samples                         *)
(***************************************************************************)

\* C23: every sample a pass offers for a scrape uses a descriptor that
\* Describe sends, and Describe makes no cluster query.
C23_EmittedDescriptorsDescribed ==
    /\ Describe.queries = <<>>
    /\ \A p \in Passes : \A k \in 1..Len(p.sends) : p.sends[k].m.desc \in Describe.descs

(***************************************************************************)
(* Failures of one daemon                                                  *)
(***************************************************************************)

\* C24: when a per-daemon query or its decoding fails for the daemon of one
\* detail message, the daemons of the later well-formed messages of the pass
\* still have their status queried.
C24_LaterDaemonsStillQueried ==
    \A p \in Passes : \A j \in 1..Len(DetailOf(p)) :
        FailedAt(p, j) =>
            \A j2 \in (j + 1)..Len(DetailOf(p)) :
                ~Malformed(DetailOf(p)[j2]) =>
                    \E n \in QueriesFor(p, j2) : p.queries[n].q = "status"

(***************************************************************************)
(* The error returned by a pass                                            *)
(***************************************************************************)

HealthQueries(p) == {n \in 1..Len(p.queries) : p.queries[n].q = "health detail"}

\* C25: a pass whose mds stat query fails or cannot be decoded returns an
\* error, issues no health-detail query and produces no sample; a pass whose
\* mds stat succeeds returns no error, whatever fails in slow-op collection.
C25_StatFailureEndsPass ==
    \A p \in Passes :
        /\ runMDSStatFn(p.w).res # "ok" =>
              /\ p.err # ""
              /\ HealthQueries(p) = {}
              /\ p.sends = <<>>
        /\ runMDSStatFn(p.w).res = "ok" => p.err = ""

\* a pass has ended with an error at mds stat while the health payload held
\* the slow-request check and a daemon had a blocked request
C25_Witness ==
    \E p \in Passes :
        /\ Finished(p)
        /\ p.err # ""
        /\ SlowRequest \in DOMAIN runCephHealthDetailFn(p.w).Checks
        /\ runBlockedOpsCheckFn(p.w, <<"a">>).Ops # <<>>

(***************************************************************************)
(* Termination of Collect                                                  *)
(***************************************************************************)

Returned(c) == c <= Len(calls) /\ calls[c].pc = "done"

\* C26: every Collect call that has begun returns, in synchronous mode and
\* while a background task that never stops writes to the buffer, given that
\* every step of the call and of the task is scheduled and the consumer takes
\* every sample the call forwards.
C26_CollectTerminates ==
    \A c \in 1..MaxCalls : [](c <= Len(calls) => <>Returned(c))

(***************************************************************************)
(* Counters and passes                                                     *)
(***************************************************************************)

\* C27: the value of every blocked-ops sample is the number of records of
\* the dump read in its own pass that have its label tuple, whatever earlier
\* passes counted.
C27_CountersStartAtZero ==
    \A p \in Passes : \A q \in Dumped(p) : \A k \in SlowSends(p, q.msg) :
        p.sends[k].m.value = Cardinality(Counted(p, q, p.sends[k].m.labels))

\* two Collect calls, one begun after the other, have each emitted a
\* blocked-ops sample for the same label tuple
C27_Witness ==
    /\ Len(calls) >= 2
    /\ \E k1 \in AllSlowSends(calls[1].pass) : \E k2 \in AllSlowSends(calls[2].pass) :
          /\ Finished(calls[1].pass) /\ Finished(calls[2].pass)
          /\ calls[1].pass.sends[k1].m.labels = calls[2].pass.sends[k2].m.labels
          /\ calls[2].pass.sends[k2].m.value = 1

(***************************************************************************)
(* Properties of Hash and UnHash                                           *)
(***************************************************************************)

\* C28: two label tuples have the same Hash exactly when they are equal in
\* every field, and UnHash of a tuple's Hash is the tuple, empty fields
\* included.
C28_HashInjectiveAndReversible ==
    enc.pc = "done" =>
        /\ (enc.ha = enc.hb) <=> (\A f \in DOMAIN ZeroLabels : enc.a[f] = enc.b[f])
        /\ \A f \in DOMAIN ZeroLabels : enc.back[f] = enc.a[f]

\* two tuples that hold the same value in different fields, the other fields
\* of both empty
C28_Witness ==
    /\ enc.pc = "done"
    /\ enc.a = [ZeroLabels EXCEPT !.FSName = <<"a">>]
    /\ enc.b = [ZeroLabels EXCEPT !.Inode = <<"a">>]
    /\ enc.ha # enc.hb
    /\ enc.back.Inode = <<>>

(***************************************************************************)
(* Messages with several "("                                               *)
(***************************************************************************)

HasParen(msg) == \E i \in 1..Len(msg) : msg[i] = "("

\* C29: a detail message with a "(" is accepted, with the text before its
\* first "(" as the daemon name, also when further "(" follow; a message is
\* rejected as malformed only when it has no "(".
C29_SplitAtFirstParenOnly ==
    \A p \in Passes : \A j \in 1..Len(DetailOf(p)) :
        Reached(p, j) =>
            IF HasParen(DetailOf(p)[j])
            THEN /\ \E n \in QueriesFor(p, j) : p.queries[n].q = "status"
                 /\ NamedAs(p, j, BeforeParen(DetailOf(p)[j]))
            ELSE QueriesFor(p, j) = {} /\ LogsFor(p, j) # {}

(***************************************************************************)
(* Records that are not client requests                                    *)
(***************************************************************************)

\* the label tuple of a record of the dump read for query q whose subtype
\* and inode are empty
PlainLabels(p, q, op) ==
    <<runMDSStatusFn(p.w, q.mds).FsName, q.mds, runMDSStatusFn(p.w, q.mds).State,
      op.OpType, <<>>, op.FlagPoint, <<>>>>

OtherRecords(p, q) ==
    {i \in 1..Len(DumpOf(p, q)) : DumpOf(p, q)[i].OpType # ClientRequest}

\* C30: every record of a dump whose type is not client_request is counted
\* under the tuple of the daemon's status, its own type and flag point and an
\* empty subtype and inode, whatever its description: the sample of that
\* tuple counts all of them, and none of them is logged as a parse failure.
C30_OtherTypesNeverDropped ==
    \A p \in Passes : \A q \in Dumped(p) : \A i \in OtherRecords(p, q) :
        /\ Cardinality(SlowSendsOf(p, q.msg, PlainLabels(p, q, DumpOf(p, q)[i]))) = 1
        /\ \A k \in SlowSendsOf(p, q.msg, PlainLabels(p, q, DumpOf(p, q)[i])) :
              p.sends[k].m.value =
                  Cardinality({i2 \in OtherRecords(p, q) :
                                  PlainLabels(p, q, DumpOf(p, q)[i2])
                                      = PlainLabels(p, q, DumpOf(p, q)[i])})
        /\ Cardinality(ParseFailures(p, q.msg))
              = Cardinality({i2 \in 1..Len(DumpOf(p, q)) : ~PassesParsing(DumpOf(p, q)[i2])})

\* a pass has finished over a dump with two records of another type, one
\* whose description matches the client-request grammar and one whose
\* description does not, both counted under the same tuple
C30_Witness ==
    \E p \in Passes : \E q \in Dumped(p) : \E i1, i2 \in OtherRecords(p, q) :
        /\ Finished(p)
        /\ FindStringSubmatch(DumpOf(p, q)[i1].Description) # <<>>
        /\ FindStringSubmatch(DumpOf(p, q)[i2].Description) = <<>>
        /\ \E k \in SlowSendsOf(p, q.msg, PlainLabels(p, q, DumpOf(p, q)[i1])) :
              p.sends[k].m.value = 2

====
